---- MODULE Spec2Model ----
(***************************************************************************)
(* RangeIQ: the crowd aggregation and trip-sync engine.                     *)
(*                                                                          *)
(* The model follows the server code of the repository:                    *)
(*   - syncTrips / saveTrip / getOrCreateUser / updateCrowdSegment          *)
(*     (the Cosmos DB service, src/src/services/prediction/                 *)
(*     energyPrediction.ts lines 344-699),                                   *)
(*   - calculateConfidence (src/api/src/models/index.ts),                   *)
(*   - the HTTP handlers getUser, updateUser, updateVehicleConfig,          *)
(*     updatePreferences, syncTrips and predictConsumption                  *)
(*     (src/api/src/functions/user.ts).                                     *)
(*                                                                          *)
(* Every `await` on the store is a point where another request handler may  *)
(* run, so each handler is cut into one action per store operation.  The    *)
(* store itself applies each operation atomically:                          *)
(*   items.upsert  replaces the item unconditionally (the code passes no    *)
(*                 etag / access condition),                                *)
(*   items.create  fails with 409 when the id already exists,               *)
(*   item.read     of an absent item either throws an error with code 404   *)
(*                 or resolves with an undefined resource, depending on the *)
(*                 version of @azure/cosmos the build links; the code has   *)
(*                 a path for both, so both outcomes are modelled,          *)
(*   any operation may fail with a store/network error.                     *)
(*                                                                          *)
(* Numbers: whPerKm samples, minWhPerKm, maxWhPerKm and the overall         *)
(* avgWhPerKm are held in thousandths of a Wh/km (100500 means 100.5).  An  *)
(* update stores the overall average rounded to two decimals, a multiple of *)
(* 10 thousandths; a creation stores the sample as it is.  The per variant  *)
(* average is not rounded by the code and is held as an exact fraction      *)
(* [num, den] of thousandths in lowest terms.  Confidence is held in        *)
(* hundredths.  Values are exact fractions; where Math.round is given a     *)
(* value halfway between two whole numbers, the computation is repeated on  *)
(* IEEE 754 doubles, whose last bits decide.                                *)
(***************************************************************************)
EXTENDS Integers, Sequences, FiniteSets, TLC

(***************************************************************************)
(* Bounds of the model.                                                     *)
(***************************************************************************)
NumProcs == 2      \* request handlers that may be in flight at once
MaxCalls == 2      \* requests started in one behaviour
MaxTrips == 2      \* trips in one sync request
MaxSegs  == 1      \* segments in one trip

Procs        == 1 .. NumProcs
TripIds      == {"t1", "t2"}
Geohashes    == {"tdr1vz"}
StartIndexes == {0, 1}
Samples      == {100000, 101000}
VariantIds   == {"nexon_ev_mr", "nexon_ev_lr"}

(***************************************************************************)
(* Arithmetic helpers.                                                      *)
(***************************************************************************)
RECURSIVE GCD(_, _)
GCD(a, b) == IF b = 0 THEN a ELSE GCD(b, a % b)

Abs(x) == IF x < 0 THEN -x ELSE x

Min2(a, b) == IF a <= b THEN a ELSE b
Max2(a, b) == IF a >= b THEN a ELSE b

\* A fraction in lowest terms with a positive denominator.
Frac(n, d) ==
    LET g == GCD(Abs(n), Abs(d))
    IN  [num |-> n \div g, den |-> d \div g]

\* Math.round(n / d) for d > 0: the nearest integer, halves towards +infinity
\* (floor(n / d), plus one when the remainder is at least half of d).
MathRound(n, d) == (n \div d) + (IF 2 * (n % d) >= d THEN 1 ELSE 0)

Sign(x) == IF x < 0 THEN -1 ELSE IF x > 0 THEN 1 ELSE 0

(***************************************************************************)
(* JavaScript numbers: a number is a finite value, NaN or an infinity (num  *)
(* is its sign).  A finite value is held as an exact fraction.  The         *)
(* operators follow IEEE 754 where a value is not finite: 0/0 is NaN, x/0   *)
(* is an infinity, NaN is contagious, a comparison with NaN is false.  On   *)
(* fractions they are exact, common factors being divided out before a      *)
(* product is formed.                                                       *)
(***************************************************************************)
Finite(n, d) ==
    LET g == GCD(Abs(n), Abs(d))
    IN  [kind |-> "finite", num |-> Sign(d) * (n \div g),
                            den |-> Abs(d) \div g]

NaN == [kind |-> "NaN", num |-> 0, den |-> 1]

Infinite(sign) == [kind |-> "infinite", num |-> sign, den |-> 1]

IsFinite(x) == x.kind = "finite"

IsNaN(x) == x.kind = "NaN"

\* x + y
Plus(x, y) ==
    IF IsNaN(x) \/ IsNaN(y) THEN NaN
    ELSE IF IsFinite(x) /\ IsFinite(y)
         THEN LET g == GCD(x.den, y.den)
              IN  Finite(x.num * (y.den \div g) + y.num * (x.den \div g),
                         (x.den \div g) * y.den)
    ELSE IF IsFinite(x) THEN y
    ELSE IF IsFinite(y) \/ x.num = y.num THEN x
    ELSE NaN

\* -x
Negated(x) == [x EXCEPT !.num = - @]

\* x - y
Minus(x, y) == Plus(x, Negated(y))

\* x * y
Times(x, y) ==
    IF IsNaN(x) \/ IsNaN(y) THEN NaN
    ELSE IF IsFinite(x) /\ IsFinite(y)
         THEN LET g == GCD(Abs(x.num), y.den)
                  h == GCD(Abs(y.num), x.den)
              IN  Finite((x.num \div g) * (y.num \div h),
                         (x.den \div h) * (y.den \div g))
    ELSE IF x.num = 0 \/ y.num = 0 THEN NaN
    ELSE Infinite(Sign(x.num) * Sign(y.num))

\* x / y
Over(x, y) ==
    IF IsNaN(x) \/ IsNaN(y) THEN NaN
    ELSE IF IsFinite(y)
         THEN IF y.num = 0
              THEN IF x.num = 0 THEN NaN ELSE Infinite(Sign(x.num))
              ELSE IF IsFinite(x)
                   THEN LET g == GCD(Abs(x.num), Abs(y.num))
                            h == GCD(x.den, y.den)
                        IN  Finite((x.num \div g) * (y.den \div h),
                                   (x.den \div h) * (y.num \div g))
                   ELSE Infinite(Sign(x.num) * Sign(y.num))
    ELSE IF IsFinite(x) THEN Finite(0, 1)
    ELSE NaN

\* x < y, x <= y
Less(x, y) ==
    /\ ~ IsNaN(x)
    /\ ~ IsNaN(y)
    /\ IF IsFinite(x) /\ IsFinite(y)
       THEN LET g == GCD(x.den, y.den)
            IN  x.num * (y.den \div g) < y.num * (x.den \div g)
       ELSE IF IsFinite(x) THEN y.num > 0
       ELSE IF IsFinite(y) THEN x.num < 0
       ELSE x.num < y.num

AtMost(x, y) == Less(x, y) \/ (~ IsNaN(x) /\ x = y)

\* Math.max(0, x)
MathMax0(x) ==
    IF IsNaN(x) THEN NaN
    ELSE IF Less(x, Finite(0, 1)) THEN Finite(0, 1) ELSE x

\* Math.round(x)
Rounded(x) ==
    IF IsFinite(x) THEN Finite(MathRound(x.num, x.den), 1) ELSE x


(***************************************************************************)
(* Natural numbers of any size, for the 53-bit significands of doubles: a   *)
(* sequence of digits to the base 2^15, the least significant first, the    *)
(* last one not 0; the empty sequence is 0.  An operation is applied as a   *)
(* function, [x \in S |-> ...][operand], which takes the value of its       *)
(* operand: an operand is computed once, before the operation is, as in the *)
(* program.                                                                 *)
(***************************************************************************)
DigitBits == 15
Base      == 32768

\* 2^n, n <= 30
Pow2(n) ==
    << 1, 2, 4, 8, 16, 32, 64, 128, 256, 512, 1024, 2048, 4096, 8192, 16384,
       32768, 65536, 131072, 262144, 524288, 1048576, 2097152, 4194304,
       8388608, 16777216, 33554432, 67108864, 134217728, 268435456,
       536870912, 1073741824 >>[n + 1]

Bigs == Seq(0 .. Base - 1)

Digit(a, i) == IF 1 <= i /\ i <= Len(a) THEN a[i] ELSE 0

Zeros(n) == SubSeq([i \in 1 .. n |-> 0], 1, n)

\* The digits without the zeros at their end: as many digits as there are
\* places with a digit other than 0 at or above them.
Trimmed(digits) ==
    [a \in Seq(Int) |->
        SubSeq(a, 1, Cardinality({i \in 1 .. Len(a) :
                                     \E j \in i .. Len(a) : a[j] # 0}))
    ][digits \o <<>>]

\* A number of less than 2^31 as digits.
Big(n) == Trimmed(<<n % Base, (n \div Base) % Base, n \div (Base * Base)>>)

\* The digits a, of a number less than 2^31, as a number.
RECURSIVE Small(_)
Small(a) == IF a = <<>> THEN 0 ELSE a[1] + Base * Small(Tail(a))

\* x + y: a carry enters digit i when some lower digit j produces one and
\* every digit between j and i passes it on.
BigPlus(x, y) ==
    [a \in Bigs, b \in Bigs |->
        Trimmed([i \in 1 .. Max2(Len(a), Len(b)) + 1 |->
                   (Digit(a, i) + Digit(b, i)
                      + (IF \E j \in 1 .. i - 1 :
                               /\ Digit(a, j) + Digit(b, j) >= Base
                               /\ \A k \in j + 1 .. i - 1 :
                                     Digit(a, k) + Digit(b, k) = Base - 1
                         THEN 1 ELSE 0)) % Base])
    ][x, y]

\* x - y for x >= y
BigMinus(x, y) ==
    [a \in Bigs, b \in Bigs |->
        Trimmed([i \in 1 .. Len(a) |->
                   (a[i] - Digit(b, i) + Base
                      - (IF \E j \in 1 .. i - 1 :
                               /\ a[j] < Digit(b, j)
                               /\ \A k \in j + 1 .. i - 1 : a[k] = Digit(b, k)
                         THEN 1 ELSE 0)) % Base])
    ][x, y]

\* -1, 0 or 1 as x is less than, equal to or greater than y
BigCompare(x, y) ==
    [a \in Bigs, b \in Bigs |->
        IF a = b THEN 0
        ELSE IF \E i \in 1 .. Max2(Len(a), Len(b)) :
                   /\ Digit(a, i) < Digit(b, i)
                   /\ \A j \in i + 1 .. Max2(Len(a), Len(b)) :
                         Digit(a, j) = Digit(b, j)
             THEN -1 ELSE 1
    ][x, y]

\* x * d for a digit d
BigTimesDigit(x, d) ==
    [a \in Bigs, k \in 0 .. Base - 1 |->
        BigPlus([i \in 1 .. Len(a) |-> (a[i] * k) % Base] \o <<>>,
                [i \in 1 .. Len(a) + 1 |->
                    (Digit(a, i - 1) * k) \div Base] \o <<>>)
    ][x, d]

\* x * y, the digits of y from the i-th on
RECURSIVE BigTimesFrom(_, _, _)
BigTimesFrom(x, y, i) ==
    IF i > Len(y) THEN <<>>
    ELSE BigPlus(Zeros(i - 1) \o BigTimesDigit(x, y[i]),
                 BigTimesFrom(x, y, i + 1))

\* x * 2^bits
ShiftedLeft(x, bits) ==
    [a \in Bigs, n \in Nat |->
        Trimmed(Zeros(n \div DigitBits)
                    \o BigTimesDigit(a, Pow2(n % DigitBits)))
    ][x, bits]

\* floor(x / 2^bits)
ShiftedRight(x, bits) ==
    [a \in Bigs, skip \in Nat, low \in 1 .. Base |->
        Trimmed([i \in 1 .. Len(a) - skip |->
                    (Digit(a, i + skip) \div low)
                        + (Digit(a, i + skip + 1) % low) * (Base \div low)])
    ][x, bits \div DigitBits, Pow2(bits % DigitBits)]

\* Whether one of the lowest `bits` bits of a is 1.
Sticky(a, bits) ==
    \E i \in 1 .. Len(a) :
        IF i <= bits \div DigitBits THEN a[i] # 0
        ELSE /\ i = bits \div DigitBits + 1
             /\ a[i] % Pow2(bits % DigitBits) # 0

\* The number of bits of a.
BitLength(a) ==
    IF a = <<>> THEN 0
    ELSE DigitBits * (Len(a) - 1)
             + Cardinality({i \in 0 .. DigitBits - 1 :
                               Pow2(i) <= a[Len(a)]})

\* floor(x / y) for x < y * Base, y having its highest digit at least
\* Base / 2: the quotient of the leading digits is the digit looked for,
\* or 1 or 2 more.
QuotientDigit(x, y) ==
    [r \in Bigs, b \in Bigs, est \in 0 .. Base - 1 |->
        [p \in Bigs |->
            IF BigCompare(p, r) <= 0 THEN est
            ELSE IF BigCompare(BigMinus(p, b), r) <= 0 THEN est - 1
            ELSE est - 2
        ][BigTimesDigit(b, est)]
    ][x, y, Min2(Base - 1,
                 (Digit(x, Len(y) + 1) * Base + Digit(x, Len(y)))
                     \div y[Len(y)])]

\* The `digits` digits of floor(x * Base^digits / b) for x < b, the least
\* significant first, and whether the division left a remainder: a digit of
\* the quotient at a time, the highest first.
RECURSIVE BigOverFrom(_, _, _)
BigOverFrom(x, b, digits) ==
    IF digits = 0 THEN [quotient |-> <<>>, inexact |-> x # <<>>]
    ELSE [r \in Bigs |->
            [q \in 0 .. Base - 1 |->
                [lower \in [quotient : Bigs, inexact : BOOLEAN] |->
                    [quotient |-> lower.quotient \o <<q>>,
                     inexact  |-> lower.inexact]
                ][BigOverFrom(BigMinus(r, BigTimesDigit(b, q)), b,
                              digits - 1)]
            ][QuotientDigit(r, b)]
         ][Trimmed(<<0>> \o x)]

(***************************************************************************)
(* The doubles the program holds.  Math.round of a value that lies halfway  *)
(* between two whole numbers goes by the last bits of the double that the   *)
(* program has computed for it, so where a value is such a half the model   *)
(* repeats the computation on doubles: sign * m * 2^e with m of 53 bits     *)
(* (kind "double"), or sign 0; NaN and the infinities are those of the      *)
(* fractions.  A result is rounded to the nearest double, a half to the     *)
(* even one.  The values of the model are far from the subnormal numbers    *)
(* and from overflow, which are left out.                                   *)
(***************************************************************************)
IsDouble(x) == x.kind = "double"

SignificandBits == 53

DoubleZero == [kind |-> "double", sign |-> 0, m |-> <<>>, e |-> 0]

Doubles == [kind : {"double"}, sign : {-1, 0, 1}, m : Bigs, e : Int]

\* What the program may hold: a double, NaN or an infinity.
Held == Doubles \cup {NaN, Infinite(1), Infinite(-1)}

\* The double nearest to s * (digits + f) * 2^exponent for digits > 0 and a
\* fraction f, 0 <= f < 1, that is not 0 exactly when `remainder`; the
\* digits have 55 bits or more when it is.  t is the significand with the
\* first of the bits to drop, q the significand, r the rounded one.
Nearest(s, digits, exponent, remainder) ==
    [sign \in {-1, 1}, m \in Bigs, e \in Int, inexact \in BOOLEAN,
     drop \in Int |->
        IF drop <= 0
        THEN [kind |-> "double", sign |-> sign,
              m |-> ShiftedLeft(m, - drop), e |-> e + drop]
        ELSE [t \in Bigs |->
               [q \in Bigs |->
                 [r \in Bigs |->
                    IF BitLength(r) > SignificandBits
                    THEN [kind |-> "double", sign |-> sign,
                          m |-> ShiftedRight(r, 1), e |-> e + drop + 1]
                    ELSE [kind |-> "double", sign |-> sign,
                          m |-> r, e |-> e + drop]
                 ][IF /\ t[1] % 2 = 1
                      /\ \/ inexact
                         \/ Sticky(m, drop - 1)
                         \/ Digit(q, 1) % 2 = 1
                   THEN BigPlus(q, <<1>>) ELSE q]
               ][ShiftedRight(t, 1)]
             ][ShiftedRight(m, drop - 1)]
    ][s, digits, exponent, remainder, BitLength(digits) - SignificandBits]

\* The double of a whole number.
Whole(n) ==
    IF n = 0 THEN DoubleZero ELSE Nearest(Sign(n), Big(Abs(n)), 0, FALSE)

\* The sign of a double as a fraction: what an operation with NaN or an
\* infinity depends on.
SignOf(x) == IF IsDouble(x) THEN Finite(x.sign, 1) ELSE x

\* -1, 0 or 1 as x is less than, equal to or greater than y
DoubleCompare(u, v) ==
    [x \in Doubles, y \in Doubles |->
        IF x.sign # y.sign THEN IF x.sign < y.sign THEN -1 ELSE 1
        ELSE IF x.sign = 0 THEN 0
        ELSE x.sign * BigCompare(ShiftedLeft(x.m, x.e - Min2(x.e, y.e)),
                                 ShiftedLeft(y.m, y.e - Min2(x.e, y.e)))
    ][u, v]

\* x + y
DoublePlus(u, v) ==
    [x \in Held, y \in Held |->
        IF ~ (IsDouble(x) /\ IsDouble(y)) THEN Plus(SignOf(x), SignOf(y))
        ELSE IF x.sign = 0 THEN y
        ELSE IF y.sign = 0 THEN x
        ELSE [a \in Bigs, b \in Bigs |->
               [c \in {-1, 0, 1} |->
                  IF x.sign # y.sign /\ c = 0 THEN DoubleZero
                  ELSE Nearest(IF x.sign = y.sign \/ c > 0
                               THEN x.sign ELSE y.sign,
                               IF x.sign = y.sign THEN BigPlus(a, b)
                               ELSE IF c > 0 THEN BigMinus(a, b)
                               ELSE BigMinus(b, a),
                               Min2(x.e, y.e), FALSE)
               ][BigCompare(a, b)]
             ][ShiftedLeft(x.m, x.e - Min2(x.e, y.e)),
               ShiftedLeft(y.m, y.e - Min2(x.e, y.e))]
    ][u, v]

\* x * y
DoubleTimes(u, v) ==
    [x \in Held, y \in Held |->
        IF ~ (IsDouble(x) /\ IsDouble(y)) THEN Times(SignOf(x), SignOf(y))
        ELSE IF x.sign = 0 \/ y.sign = 0 THEN DoubleZero
        ELSE Nearest(x.sign * y.sign, BigTimesFrom(x.m, y.m, 1),
                     x.e + y.e, FALSE)
    ][u, v]

\* x / y: the significands, shifted to have their highest digits at least
\* Base / 2, are divided to 4 digits after the point, which are 60 bits or
\* 61 of the quotient, and the quotient is rounded.
DoubleOver(u, v) ==
    [x \in Held, y \in Held |->
        IF ~ (IsDouble(x) /\ IsDouble(y))
        THEN [r \in {NaN, Infinite(1), Infinite(-1), Finite(0, 1)} |->
                IF IsFinite(r) THEN DoubleZero ELSE r
             ][Over(SignOf(x), SignOf(y))]
        ELSE IF y.sign = 0
        THEN IF x.sign = 0 THEN NaN ELSE Infinite(x.sign)
        ELSE IF x.sign = 0 THEN DoubleZero
        ELSE [a \in Bigs, b \in Bigs |->
               [first \in BOOLEAN |->
                 [d \in [quotient : Bigs, inexact : BOOLEAN] |->
                    Nearest(x.sign * y.sign,
                            Trimmed(d.quotient
                                        \o <<IF first THEN 1 ELSE 0>>),
                            x.e - y.e - DigitBits * 4, d.inexact)
                 ][BigOverFrom(IF first THEN BigMinus(a, b) ELSE a, b, 4)]
               ][BigCompare(a, b) >= 0]
             ][ShiftedLeft(x.m, DigitBits * Len(y.m) - SignificandBits),
               ShiftedLeft(y.m, DigitBits * Len(y.m) - SignificandBits)]
    ][u, v]

\* The double nearest to n / d, as of a literal or of a stored number.
ToDouble(n, d) == DoubleOver(Whole(n), Whole(d))

\* A fraction as the double the program holds for it.
AsDouble(x) == IF IsFinite(x) THEN ToDouble(x.num, x.den) ELSE x

\* Math.round of a double: floor(x + 1/2), computed exactly.  t is
\* floor(2 * |x|).
DoubleRounded(u) ==
    [x \in Doubles |->
        IF x.sign = 0 THEN 0
        ELSE IF x.e >= 0 THEN x.sign * Small(ShiftedLeft(x.m, x.e))
        ELSE [t \in Bigs |->
                IF x.sign > 0
                THEN Small(ShiftedRight(t, 1)) + (Digit(t, 1) % 2)
                ELSE - (Small(ShiftedRight(t, 1))
                          + (IF Digit(t, 1) % 2 = 1 /\ Sticky(x.m, - x.e - 1)
                             THEN 1 ELSE 0))
             ][ShiftedRight(x.m, - x.e - 1)]
    ][u]

\* Math.round of what the program holds.
HeldRounded(x) == IF IsDouble(x) THEN Finite(DoubleRounded(x), 1) ELSE x

\* Whether x lies halfway between two whole numbers.
IsHalf(x) == IsFinite(x) /\ x.den = 2

\* Math.round(x) for the value x that the program holds as `held`.
RoundedAs(x, held) == IF IsHalf(x) THEN HeldRounded(held) ELSE Rounded(x)

\* Math.round(x * 100) / 100
Rounded2(x) ==
    IF IsFinite(x)
    THEN Over(RoundedAs(Times(x, Finite(100, 1)),
                        DoubleTimes(AsDouble(x), Whole(100))),
              Finite(100, 1))
    ELSE x

\* The arithmetic of a computation that is made on fractions and repeated
\* on doubles: the operands are all fractions or all held.
Added(x, y) == IF IsDouble(x) \/ IsDouble(y) THEN DoublePlus(x, y) ELSE Plus(x, y)

Subtracted(x, y) ==
    IF IsDouble(x) \/ IsDouble(y)
    THEN DoublePlus(x, IF IsDouble(y) THEN [y EXCEPT !.sign = - @]
                       ELSE Negated(y))
    ELSE Minus(x, y)

Multiplied(x, y) == IF IsDouble(x) \/ IsDouble(y) THEN DoubleTimes(x, y) ELSE Times(x, y)

Divided(x, y) == IF IsDouble(x) \/ IsDouble(y) THEN DoubleOver(x, y) ELSE Over(x, y)

\* x < y
Below(x, y) ==
    IF IsDouble(x) /\ IsDouble(y) THEN DoubleCompare(x, y) < 0
    ELSE IF IsDouble(x) \/ IsDouble(y)
    THEN [a \in Held, b \in Held |-> Less(SignOf(a), SignOf(b))][x, y]
    ELSE Less(x, y)

\* x <= y
NotAbove(x, y) ==
    IF IsDouble(x) /\ IsDouble(y) THEN DoubleCompare(x, y) <= 0
    ELSE IF IsDouble(x) \/ IsDouble(y)
    THEN [a \in Held, b \in Held |-> AtMost(SignOf(a), SignOf(b))][x, y]
    ELSE AtMost(x, y)

\* Math.max(0, x)
AtLeast0(x) ==
    IF IsDouble(x) THEN IF x.sign < 0 THEN DoubleZero ELSE x
    ELSE MathMax0(x)

(***************************************************************************)
(* calculateConfidence, src/api/src/models/index.ts lines 316-327.          *)
(*   sampleConfidence   = 1 - Math.exp(-sampleCount / 50)                   *)
(*   varianceMultiplier = Math.max(0.3, 1 - stdDeviation / 100)             *)
(*   return Math.round(sampleConfidence * varianceMultiplier * 100) / 100   *)
(* Math.exp is evaluated by its power series in fixed point (six decimal    *)
(* digits); the result is the confidence in hundredths.                     *)
(***************************************************************************)
FixedOne == 1000000

\* sum over k >= j of (-x)^k / k!  for x = sampleCount / 50, given the
\* magnitude `term` of the k = j - 1 term; stops when the terms vanish.
RECURSIVE ExpSeries(_, _, _)
ExpSeries(sampleCount, j, term) ==
    LET next == (term * sampleCount) \div (50 * j)
    IN  IF next = 0 THEN 0
        ELSE (IF j % 2 = 1 THEN -next ELSE next)
             + ExpSeries(sampleCount, j + 1, next)

\* Math.exp(-sampleCount / 50), scaled by FixedOne.
ExpNeg(sampleCount) ==
    IF sampleCount = 0 THEN FixedOne
    ELSE FixedOne + ExpSeries(sampleCount, 1, FixedOne)

\* The score without the floor of 0.3 on the variance multiplier, for
\* comparison.
calculateConfidenceNoFloor(sampleCount, stdDeviation) ==
    LET sampleConfidence == FixedOne - ExpNeg(sampleCount)
    IN  MathRound(sampleConfidence * (100 - stdDeviation), FixedOne)

calculateConfidence(sampleCount, stdDeviation) ==
    LET sampleConfidence   == FixedOne - ExpNeg(sampleCount)
        varianceMultiplier == Max2(30, 100 - stdDeviation)   \* hundredths
    IN  MathRound(sampleConfidence * varianceMultiplier, FixedOne)

(***************************************************************************)
(* Crowd segments.  The item id is `${segment.geohash}-${segment.startIndex}`*)
(* (updateCrowdSegment, line 565) and the partition key is the geohash.     *)
(***************************************************************************)
SegmentIds == Geohashes \X StartIndexes

segmentId(segment) == <<segment.geohash, segment.startIndex>>

\* The trip segments a sync request may carry.
TripSegments ==
    [geohash : Geohashes, startIndex : StartIndexes, whPerKm : Samples]

\* byVariant of a segment: variant id -> [avgWhPerKm, sampleCount].  A variant
\* with no entry in the map is held as NoVariantData (sampleCount 0); every
\* entry the code writes has sampleCount >= 1.
NoVariantData == [avgWhPerKm |-> [num |-> 0, den |-> 1], sampleCount |-> 0]

\* A name every object inherits from Object.prototype: looked up in a map
\* that has no entry of its own under it, the name yields a function.
ObjectPrototypeNames == {"toString"}

\* The keys a byVariant map may hold: trip.vehicleState.variantId is any
\* string of the request.
StoredVariantIds == VariantIds \cup ObjectPrototypeNames

NoVariants == [v \in StoredVariantIds |-> NoVariantData]

\* The segment written by the 404 branch (lines 622-653).
NewSegment(segment, variantId) ==
    [ id             |-> segmentId(segment),
      geohash        |-> segment.geohash,
      avgWhPerKm     |-> segment.whPerKm,
      minWhPerKm     |-> segment.whPerKm,
      maxWhPerKm     |-> segment.whPerKm,
      stdDeviation   |-> 0,
      byVariant      |-> [NoVariants EXCEPT ![variantId] =
                             [avgWhPerKm  |-> Frac(segment.whPerKm, 1),
                              sampleCount |-> 1]],
      sampleCount    |-> 1,
      confidence     |-> 10 ]

\* variantData.avgWhPerKm + (whPerKm - variantData.avgWhPerKm) /
\*   (variantData.sampleCount + 1), on exact fractions (lines 609-612).
VariantMean(variantData, whPerKm) ==
    LET a == variantData.avgWhPerKm
        n == variantData.sampleCount + 1
    IN  Frac(a.num * n + (whPerKm * a.den - a.num), a.den * n)

UpdatedVariant(variantData, whPerKm) ==
    IF variantData = NoVariantData
    THEN [avgWhPerKm |-> Frac(whPerKm, 1), sampleCount |-> 1]
    ELSE [avgWhPerKm  |-> VariantMean(variantData, whPerKm),
          sampleCount |-> variantData.sampleCount + 1]

\* Math.round(newAvg * 100) / 100 where newAvg = avg + (whPerKm - avg) /
\* newCount (lines 581-585), on thousandths: the nearest multiple of 10.
\* Where newAvg * 100 is a half exactly, the double the program computes
\* decides.
RunningAverage(avgWhPerKm, whPerKm, newCount) ==
    10 * RoundedAs(
             Finite(avgWhPerKm * newCount + (whPerKm - avgWhPerKm),
                    10 * newCount),
             [avg \in Doubles |->
                 DoubleTimes(
                     DoublePlus(avg,
                                DoubleOver(Subtracted(ToDouble(whPerKm, 1000),
                                                      avg),
                                           Whole(newCount))),
                     Whole(100))
             ][ToDouble(avgWhPerKm, 1000)]).num

\* The segment computed from the snapshot `existing` (lines 576-614).
UpdatedSegment(existing, segment, variantId) ==
    LET newCount == existing.sampleCount + 1
    IN  [existing EXCEPT
           !.avgWhPerKm  = RunningAverage(existing.avgWhPerKm,
                                          segment.whPerKm, newCount),
           !.minWhPerKm  = Min2(existing.minWhPerKm, segment.whPerKm),
           !.maxWhPerKm  = Max2(existing.maxWhPerKm, segment.whPerKm),
           !.sampleCount = newCount,
           !.confidence  = calculateConfidence(newCount,
                                               existing.stdDeviation),
           \* !existing.aggregatedData.byVariant[variantId] (601) is false
           \* for an inherited name: the else branch assigns to the function
           \* found, which is no part of the item that is upserted.
           !.byVariant   =
               IF /\ variantId \in ObjectPrototypeNames
                  /\ existing.byVariant[variantId] = NoVariantData
               THEN existing.byVariant
               ELSE [existing.byVariant EXCEPT ![variantId] =
                        UpdatedVariant(existing.byVariant[variantId],
                                       segment.whPerKm)]]

(***************************************************************************)
(* State.                                                                   *)
(*   crowd, trips, users : the items of the three Cosmos containers.  Of a  *)
(*                         user profile the model keeps its preferences:    *)
(*                         null (a profile that updateUser wrote from a     *)
(*                         body with preferences: null), or an object whose *)
(*                         shareAnonymousData is true, false, or has no     *)
(*                         value (preferences written without the key).     *)
(*   pc, call            : per request handler, the store operation it      *)
(*                         awaits and the locals of the handler and of the  *)
(*                         functions it has called.                         *)
(*   started             : the requests started so far: sync requests       *)
(*                         (Spec), ingests and predictions (SpecSeq).       *)
(*   ingested            : history, per segment id the number of ingests    *)
(*                         that returned created or updated.                *)
(*   sampleSum           : history of the calls of updateCrowdSegment made  *)
(*                         on their own (SpecSeq): per segment id the sum   *)
(*                         of the samples written, as long as every write   *)
(*                         came from a call that read what the store held   *)
(*                         when it wrote (no other write in between), the   *)
(*                         empty set afterwards.                            *)
(*   prediction          : the last answer of the predictConsumption        *)
(*                         handler.                                         *)
(*   ingestResult        : what the last call of updateCrowdSegment made on *)
(*                         its own returned or threw.                       *)
(*   tripInput,          : the arguments of predictTripEnergy and the       *)
(*   tripPrediction        TripPrediction it returns.                       *)
(*   confidenceInput,    : the arguments of calculateConfidence and the     *)
(*   confidenceResult      number it returns.                               *)
(*   geohashInput,       : the arguments of calculateGeohash and the        *)
(*   geohashResult         strings it returns.                              *)
(*   vehicleStore        : the state of the client's vehicle store          *)
(*                         (useVehicleStore).                               *)
(*   pendingTrips        : the client's queue of trips to sync, the item    *)
(*                         "nexon-ev-pending-trips" of localStorage.        *)
(*   syncRequests        : the sync requests of offlineSync.syncPending     *)
(*                         that are in flight, each with the trips it       *)
(*                         carries.                                         *)
(*   acknowledged        : history, the trips of the sync requests the      *)
(*                         server has answered successfully.                *)
(***************************************************************************)
VARIABLES crowd, trips, users, pc, call, started, ingested, sampleSum,
          prediction, ingestResult, tripInput, tripPrediction,
          confidenceInput, confidenceResult, geohashInput, geohashResult,
          vehicleStore, pendingTrips, syncRequests, acknowledged

vars == <<crowd, trips, users, pc, call, started, ingested, sampleSum,
          prediction, ingestResult, tripInput, tripPrediction,
          confidenceInput, confidenceResult, geohashInput, geohashResult,
          vehicleStore, pendingTrips, syncRequests, acknowledged>>

\* The input and the result of predictTripEnergy, which no handler touches.
tripVars == <<tripInput, tripPrediction>>

\* The inputs and results of the other pure functions.
calculationVars ==
    <<confidenceInput, confidenceResult, geohashInput, geohashResult>>

\* The state of the client: its vehicle store and its offline queue.
clientVars == <<vehicleStore, pendingTrips, syncRequests, acknowledged>>

\* What the sync and predict handlers leave alone.
otherVars == <<ingestResult, tripVars, calculationVars, clientVars>>

\* DEFAULT_VEHICLE_STATE (src/unnamed/part_006, 109-122), the state of the
\* vehicle store when it is created; the variant and the regen level are
\* held by their id and their level.
DEFAULT_VEHICLE_STATE ==
    [ variant            |-> "LR",
      currentSoC         |-> 80,
      batteryHealth      |-> 98,
      batteryTemperature |-> 25,
      regenLevel         |-> 2,
      hvacOn             |-> FALSE,
      hvacMode           |-> "off",
      hvacTemperature    |-> 24,
      tirePressure       |-> 33,
      payload            |-> 75,
      odometer           |-> 0,
      isConnected        |-> FALSE ]

\* No pure function has been called.
NoCalculation ==
    /\ confidenceInput = {}
    /\ confidenceResult = {}
    /\ geohashInput = {}
    /\ geohashResult = {}

\* The client as it starts: the store at its defaults, nothing to sync.
FreshClient ==
    /\ vehicleStore = DEFAULT_VEHICLE_STATE
    /\ pendingTrips = <<>>
    /\ syncRequests = {}
    /\ acknowledged = {}

UserId == "u1"

NoSegment == [geohash |-> "", startIndex |-> 0, whPerKm |-> 0]

\* preferences.shareAnonymousData is true or false, or the preferences have
\* no such key (the empty set).
SharingValues == {{}, {TRUE}, {FALSE}}

\* The preferences of a profile or of a request body: an object, of which
\* the model keeps shareAnonymousData, or null.
Preferences(shareAnonymousData) ==
    [isNull |-> FALSE, shareAnonymousData |-> shareAnonymousData]

NullPreferences == [isNull |-> TRUE, shareAnonymousData |-> {}]

UserProfile(preferences) == [id |-> UserId, preferences |-> preferences]

\* user.preferences.shareAnonymousData as a condition (539), for
\* preferences that are an object: undefined is falsy.
Shares(profile) == TRUE \in profile.preferences.shareAnonymousData

\* The locals of a handler that has not received a request.
IdleCall ==
    [ handler             |-> "",      \* the HTTP handler that runs
      preferences         |-> {},      \* the preferences of the request body
      current             |-> {},      \* the profile the handler has read
      user                |-> {},      \* syncTrips: the profile read for the
                                       \* trip of the current iteration
      tripsLeft           |-> 0,       \* trips of request.trips not yet done
      segsLeft            |-> 0,       \* segments of trip.segments not yet done
      tripId              |-> "",      \* the trip of the current iteration
      variantId           |-> "",      \* trip.vehicleState.variantId
      segment             |-> NoSegment,
      existing            |-> {},      \* the resource read for the segment
      syncedCount         |-> 0,
      newSegmentsCreated  |-> 0,
      crowdUpdatesApplied |-> 0,
      error               |-> "",      \* the operation whose error escaped
      sharedTrips         |-> 0,       \* history: trips whose profile read
                                       \* showed the user sharing
      wasSynced           |-> FALSE,   \* history: trip stored before saveTrip
      newTrips            |-> 0,       \* history: trips not stored before
      requested           |-> 0 ]      \* history: request.trips.length

\* No prediction request has been answered yet.
NoPrediction ==
    [ status             |-> 0,
      queryFailed        |-> FALSE,
      estimatedEnergyWh  |-> Finite(0, 1),
      estimatedRangeKm   |-> Finite(0, 1),
      confidence         |-> 0,
      breakdown          |->
          [ baseConsumption |-> Finite(0, 1),
            elevationImpact |-> Finite(0, 1),
            weatherImpact   |-> Finite(0, 1),
            trafficImpact   |-> Finite(0, 1),
            hvacConsumption |-> Finite(0, 1),
            regenRecovery   |-> Finite(0, 1) ],
      crowdDataAvailable |-> FALSE,
      segments           |-> <<>>,
      request            |-> {},
      crowdData          |-> <<>> ]

Item(container, id) == {item \in container : item.id = id}

Upsert(container, item) == (container \ Item(container, item.id)) \cup {item}

\* No request has reached the server and no trip prediction was asked for.
IdleServer ==
    /\ crowd = {}
    /\ trips = {}
    /\ users = {}
    /\ pc = [p \in Procs |-> "idle"]
    /\ call = [p \in Procs |-> IdleCall]
    /\ ingested = [id \in SegmentIds |-> 0]
    /\ sampleSum = [id \in SegmentIds |-> {0}]
    /\ prediction = NoPrediction
    /\ ingestResult = {}
    /\ tripInput = {}
    /\ tripPrediction = {}

serverVars == <<crowd, trips, users, pc, call, ingested, sampleSum,
                prediction, ingestResult, tripVars>>

Init ==
    /\ crowd = {}
    /\ trips = {}
    /\ users \in {{}, {UserProfile(Preferences({FALSE}))}}
    /\ pc = [p \in Procs |-> "idle"]
    /\ call = [p \in Procs |-> IdleCall]
    /\ started = 0
    /\ ingested = [id \in SegmentIds |-> 0]
    /\ sampleSum = [id \in SegmentIds |-> {0}]
    /\ prediction = NoPrediction
    /\ ingestResult = {}
    /\ tripInput = {}
    /\ tripPrediction = {}
    /\ NoCalculation
    /\ FreshClient

(***************************************************************************)
(* The syncTrips handler (user.ts 535-573) calling syncTrips                *)
(* (energyPrediction.ts 523-554).  A request carries userId and a list of   *)
(* trips (a body without them is answered 400 and touches nothing); the    *)
(* trips and their segments are drawn when the loop reaches them.           *)
(***************************************************************************)
StartSync(p) ==
    /\ pc[p] = "idle"
    /\ started < MaxCalls
    /\ \E n \in 0 .. MaxTrips :
          call' = [call EXCEPT ![p] =
                     [IdleCall EXCEPT !.handler = "syncTrips",
                                      !.tripsLeft = n, !.requested = n]]
    /\ pc' = [pc EXCEPT ![p] = "saveTrip"]
    /\ started' = started + 1
    /\ UNCHANGED <<crowd, trips, users, ingested, sampleSum, prediction>>
    /\ UNCHANGED otherVars

\* The loop is over: syncTrips returns its counts, the handler answers 200.
ReturnCounts(p) ==
    /\ pc[p] = "saveTrip"
    /\ call[p].tripsLeft = 0
    /\ pc' = [pc EXCEPT ![p] = "done"]
    /\ call' = [call EXCEPT ![p] = [@ EXCEPT !.tripId = "", !.variantId = "",
                                             !.user = {},
                                             !.wasSynced = FALSE]]
    /\ UNCHANGED <<crowd, trips, users, started, ingested, sampleSum,
                   prediction>>
    /\ UNCHANGED otherVars

\* saveTrip (478-492): upsert of the trip with synced: true; syncedCount++.
SaveTrip(p) ==
    /\ pc[p] = "saveTrip"
    /\ call[p].tripsLeft > 0
    /\ \E t \in TripIds, v \in VariantIds, n \in 0 .. MaxSegs :
          LET stored == Item(trips, t) # {}
          IN  /\ trips' = Upsert(trips, [id |-> t, synced |-> TRUE])
              /\ call' = [call EXCEPT ![p] =
                            [@ EXCEPT !.tripId      = t,
                                      !.variantId   = v,
                                      !.user        = {},
                                      !.segsLeft    = n,
                                      !.syncedCount = @ + 1,
                                      !.wasSynced   = stored,
                                      !.newTrips    =
                                          IF stored THEN @ ELSE @ + 1]]
    /\ pc' = [pc EXCEPT ![p] = "getOrCreateUser"]
    /\ UNCHANGED <<crowd, users, started, ingested, sampleSum, prediction>>
    /\ UNCHANGED otherVars

\* The trip of this iteration is finished: on to the next one.
NextTrip(c) ==
    [c EXCEPT !.tripsLeft = @ - 1, !.segsLeft = 0,
              !.segment = NoSegment, !.existing = {}]

\* An error escapes syncTrips: its counts are lost with its frame.  What is
\* kept is the error, the trip being processed and how many trips of the
\* request had not been finished.
Thrown(c, error) ==
    [IdleCall EXCEPT !.handler = c.handler, !.error = error,
                     !.tripId = c.tripId, !.tripsLeft = c.tripsLeft,
                     !.wasSynced = c.wasSynced,
                     !.sharedTrips = c.sharedTrips]

\* syncTrips holds the profile of the trip's user (538).
WithUser(c, profile) ==
    [c EXCEPT !.user = {profile},
              !.sharedTrips = IF Shares(profile) THEN @ + 1 ELSE @]

\* The loop over trip.segments entered whatever the user's preferences are.
AfterUserSharingIgnored(p, profile) ==
    IF call[p].segsLeft > 0
    THEN /\ pc' = [pc EXCEPT ![p] = "read"]
         /\ call' = [call EXCEPT ![p] = WithUser(@, profile)]
    ELSE /\ pc' = [pc EXCEPT ![p] = "saveTrip"]
         /\ call' = [call EXCEPT ![p] = NextTrip(WithUser(@, profile))]

\* user.preferences.shareAnonymousData && trip.segments (539): of
\* preferences that are null the property access throws a TypeError, which
\* nothing in syncTrips catches (kept with the error: the profile);
\* otherwise trip.segments is looped over when the user shares anonymous
\* data.
AfterUser(p, profile) ==
    IF profile.preferences.isNull
    THEN /\ pc' = [pc EXCEPT ![p] = "failed"]
         /\ call' = [call EXCEPT ![p] =
                       [Thrown(@, "preferences") EXCEPT !.user = {profile}]]
    ELSE IF Shares(profile) /\ call[p].segsLeft > 0
    THEN /\ pc' = [pc EXCEPT ![p] = "read"]
         /\ call' = [call EXCEPT ![p] = WithUser(@, profile)]
    ELSE /\ pc' = [pc EXCEPT ![p] = "saveTrip"]
         /\ call' = [call EXCEPT ![p] = NextTrip(WithUser(@, profile))]

\* getOrCreateUser has returned `profile` to its caller:
\*   syncTrips (538) goes on with the trip;
\*   the handler getUser (user.ts 37-42) answers 200;
\*   updateUser (461-471) goes on to upsert the profile it has read with
\*   the updates;
\*   the handlers updateVehicleConfig and updatePreferences (user.ts 118,
\*   165) keep the profile as `current` and call updateUser, which calls
\*   getOrCreateUser again.
UserReturned(p, profile) ==
    LET c == call[p]
    IN  IF c.handler = "syncTrips" THEN AfterUser(p, profile)
        ELSE IF c.handler = "getUser"
        THEN /\ pc' = [pc EXCEPT ![p] = "done"]
             /\ call' = call
        ELSE IF c.handler = "updateUser" \/ c.current # {}
        THEN /\ pc' = [pc EXCEPT ![p] = "upsertUser"]
             /\ call' = [call EXCEPT ![p] = [@ EXCEPT !.user = {profile}]]
        ELSE /\ pc' = [pc EXCEPT ![p] = "getOrCreateUser"]
             /\ call' = [call EXCEPT ![p] = [@ EXCEPT !.current = {profile}]]

\* getOrCreateUser, the read (410-419): a profile that the read resolves
\* with is returned.  A read that resolves without a resource, as of a
\* missing profile, and a read that throws with error.code 404 lead to the
\* create; the code tests the error's code and nothing else, so a read of a
\* stored profile that the store rejects with that code leads there too.
GetOrCreateUser(p) ==
    /\ pc[p] = "getOrCreateUser"
    /\ LET found == Item(users, UserId)
       IN  \/ /\ found # {}
              /\ UserReturned(p, CHOOSE u \in found : TRUE)
           \/ /\ pc' = [pc EXCEPT ![p] = "createUser"]
              /\ call' = call
    /\ UNCHANGED <<crowd, trips, users, started, ingested, sampleSum,
                   prediction>>
    /\ UNCHANGED otherVars

\* getOrCreateUser, items.create(newProfile) (421-447): the default profile
\* shares anonymous data.  The create fails with 409 when another handler
\* has created the profile since the read.
CreateUser(p) ==
    /\ pc[p] = "createUser"
    /\ LET newProfile == UserProfile(Preferences({TRUE}))
       IN  IF Item(users, UserId) = {}
           THEN /\ users' = users \cup {newProfile}
                /\ UserReturned(p, newProfile)
           ELSE /\ pc' = [pc EXCEPT ![p] = "failed"]
                /\ call' = [call EXCEPT ![p] = Thrown(@, "userConflict")]
                /\ users' = users
    /\ UNCHANGED <<crowd, trips, started, ingested, sampleSum, prediction>>
    /\ UNCHANGED otherVars

(***************************************************************************)
(* The handlers getUser, updateUser, updateVehicleConfig and                *)
(* updatePreferences (user.ts 18-184) and updateUser (energyPrediction.ts   *)
(* 453-473).  A request without userId is answered 400 and touches nothing. *)
(***************************************************************************)
UserHandlers ==
    {"getUser", "updateUser", "updateVehicleConfig", "updatePreferences"}

\* What the body of a request says about preferences.  PUT user/{userId}
\* (the body is a part of a profile, which the handler does not validate):
\* no preferences, or preferences that replace the stored ones, null or an
\* object with or without the key shareAnonymousData.
\* PUT user/{userId}/preferences (the body is a part of the preferences):
\* the key with a value, or a body without it.
RequestPreferences(handler) ==
    IF handler = "updateUser"
    THEN {{}, {NullPreferences}} \cup {{Preferences(s)} : s \in SharingValues}
    ELSE IF handler = "updatePreferences"
    THEN {{Preferences(s)} : s \in SharingValues}
    ELSE {{}}

\* Each of the four handlers first awaits getOrCreateUser: getUser and the
\* two handlers of a part of the profile call it themselves, updateUser
\* (the function) calls it for the handler updateUser.
StartUserRequest(p) ==
    /\ pc[p] = "idle"
    /\ started < MaxCalls
    /\ \E handler \in UserHandlers :
          \E preferences \in RequestPreferences(handler) :
             call' = [call EXCEPT ![p] =
                        [IdleCall EXCEPT !.handler = handler,
                                         !.preferences = preferences]]
    /\ pc' = [pc EXCEPT ![p] = "getOrCreateUser"]
    /\ started' = started + 1
    /\ UNCHANGED <<crowd, trips, users, ingested, sampleSum, prediction>>
    /\ UNCHANGED otherVars

\* {...current.preferences, ...preferences} (user.ts 167-169): an object
\* with the keys of both, the values of the body first; the spread of
\* preferences that are null adds no key.
MergedPreferences(current, preferences) ==
    Preferences(IF preferences.shareAnonymousData # {}
                THEN preferences.shareAnonymousData
                ELSE current.shareAnonymousData)

\* updated = {...current, ...updates, id, userId, updatedAt} (462-468), of
\* which the model keeps preferences: with updates that have preferences
\* they are theirs, as they are, otherwise those of the profile updateUser
\* has read.  The updates of updatePreferences are the preferences of the
\* handler's own read merged with the body.
UpdatedProfile(c) ==
    LET stored  == CHOOSE u \in c.user : TRUE
        handled == CHOOSE u \in c.current : TRUE
    IN  IF c.handler = "updateUser"
        THEN IF c.preferences = {} THEN stored
             ELSE UserProfile(CHOOSE s \in c.preferences : TRUE)
        ELSE IF c.handler = "updatePreferences"
        THEN UserProfile(MergedPreferences(handled.preferences,
                                           CHOOSE s \in c.preferences : TRUE))
        ELSE stored

\* updateUser, items.upsert(updated) (470): the stored profile is replaced.
UpsertUser(p) ==
    /\ pc[p] = "upsertUser"
    /\ users' = Upsert(users, UpdatedProfile(call[p]))
    /\ pc' = [pc EXCEPT ![p] = "done"]
    /\ UNCHANGED <<crowd, trips, call, started, ingested, sampleSum,
                   prediction>>
    /\ UNCHANGED otherVars

(***************************************************************************)
(* updateCrowdSegment (559-663).                                            *)
(***************************************************************************)
\* updateCrowdSegment has returned {created, updated}: the loop of line 540
\* goes on with the next segment or the next trip.
AfterSegment(p, c) ==
    IF c.segsLeft > 1
    THEN /\ pc' = [pc EXCEPT ![p] = "read"]
         /\ call' = [call EXCEPT ![p] =
                       [c EXCEPT !.segsLeft = @ - 1, !.segment = NoSegment,
                                 !.existing = {}]]
    ELSE /\ pc' = [pc EXCEPT ![p] = "saveTrip"]
         /\ call' = [call EXCEPT ![p] = NextTrip(c)]

\* item(segmentId, geohash).read() (571-573).  What the call does next
\* depends on the answer to the read alone.  With a resource it goes on to
\* the update.  The catch block (619-621) tests error.code: a read that
\* throws with code 404 leads to the create, whether the segment is
\* missing or the store has rejected the read of a stored segment with
\* that code.  A read that resolves without a resource (575, an `if` with
\* no `else`) makes the call return {created: false, updated: false},
\* whatever the store holds.
ReadSegment(p) ==
    /\ pc[p] = "read"
    /\ \E s \in TripSegments :
          LET found == Item(crowd, segmentId(s))
          IN  \/ /\ found # {}
                 /\ pc' = [pc EXCEPT ![p] = "upsert"]
                 /\ call' = [call EXCEPT ![p] =
                               [@ EXCEPT !.segment = s, !.existing = found]]
              \/ /\ pc' = [pc EXCEPT ![p] = "create"]   \* throws, code 404
                 /\ call' = [call EXCEPT ![p] = [@ EXCEPT !.segment = s]]
              \/ AfterSegment(p, call[p])  \* resolves, no resource
    /\ UNCHANGED <<crowd, trips, users, started, ingested, sampleSum,
                   prediction>>
    /\ UNCHANGED otherVars

Counted(id) ==
    [ingested EXCEPT ![id] = @ + 1]

\* items.upsert(existing) (616), after the update of lines 576-614.
UpsertSegment(p) ==
    /\ pc[p] = "upsert"
    /\ LET c        == call[p]
           existing == CHOOSE e \in c.existing : TRUE
       IN  /\ crowd' = Upsert(crowd,
                          UpdatedSegment(existing, c.segment, c.variantId))
           /\ ingested' = Counted(segmentId(c.segment))
           /\ AfterSegment(p, [c EXCEPT !.crowdUpdatesApplied = @ + 1])
    /\ UNCHANGED <<trips, users, started, sampleSum, prediction>>
    /\ UNCHANGED otherVars

\* items.create(newSegment) (655) inside the catch block: a 409 conflict
\* thrown here is caught by nothing in updateCrowdSegment or syncTrips.
CreateSegment(p) ==
    /\ pc[p] = "create"
    /\ LET c  == call[p]
           id == segmentId(c.segment)
       IN  IF Item(crowd, id) = {}
           THEN /\ crowd' = crowd \cup {NewSegment(c.segment, c.variantId)}
                /\ ingested' = Counted(id)
                /\ AfterSegment(p, [c EXCEPT !.newSegmentsCreated = @ + 1])
           ELSE /\ pc' = [pc EXCEPT ![p] = "failed"]
                /\ call' = [call EXCEPT ![p] = Thrown(@, "conflict")]
                /\ UNCHANGED <<crowd, ingested>>
    /\ UNCHANGED <<trips, users, started, sampleSum, prediction>>
    /\ UNCHANGED otherVars

\* The awaited store operation fails (network, timeout, throttling) with
\* an error whose code is not 404, or, for the upsert (616), with code 404.
\* An error of the read or the upsert of updateCrowdSegment is caught by
\* its catch block (619-660): with error.code 404 the handler goes on to
\* create the segment, any other error is thrown again.  (The reads that
\* throw with code 404 are steps of ReadSegment and GetOrCreateUser.)
\* Nothing else between the store and the handler catches an error: the
\* handler's catch block answers 500.
StoreFailure(p) ==
    /\ \/ /\ \/ pc[p] = "saveTrip" /\ call[p].tripsLeft > 0
             \/ pc[p] \in {"getOrCreateUser", "createUser", "upsertUser",
                         "read", "upsert", "create"}
          /\ call' = [call EXCEPT ![p] = Thrown(@, pc[p])]
          /\ pc' = [pc EXCEPT ![p] = "failed"]
       \/ /\ pc[p] = "upsert"           \* the upsert rejects with code 404
          /\ call' = [call EXCEPT ![p] = [@ EXCEPT !.existing = {}]]
          /\ pc' = [pc EXCEPT ![p] = "create"]
    /\ UNCHANGED <<crowd, trips, users, started, ingested, sampleSum,
                   prediction>>
    /\ UNCHANGED otherVars

\* The response has been sent; the handler is free for another request.
Respond(p) ==
    /\ pc[p] \in {"done", "failed"}
    /\ pc' = [pc EXCEPT ![p] = "idle"]
    /\ call' = [call EXCEPT ![p] = IdleCall]
    /\ UNCHANGED <<crowd, trips, users, started, ingested, sampleSum,
                   prediction>>
    /\ UNCHANGED otherVars

Next ==
    \E p \in Procs :
          \/ StartSync(p)
          \/ StartUserRequest(p)
          \/ UpsertUser(p)
          \/ ReturnCounts(p)
          \/ SaveTrip(p)
          \/ GetOrCreateUser(p)
          \/ CreateUser(p)
          \/ ReadSegment(p)
          \/ UpsertSegment(p)
          \/ CreateSegment(p)
          \/ StoreFailure(p)
          \/ Respond(p)

Spec == Init /\ [][Next]_vars

(***************************************************************************)
(* The predictConsumption handler (user.ts 227-405).  A route point is      *)
(* given by its geocell, calculateGeohash(lat, lng, 6); the request also    *)
(* carries the vehicle state.  The handler awaits one store operation, the  *)
(* query of getRouteSegments, and computes its answer from the result.      *)
(* Modelled of the answer: the status, the per segment estimate, confidence *)
(* and crowdDataUsed, the overall confidence and crowdDataAvailable.        *)
(***************************************************************************)
MaxRoutePoints == 3
MaxRequests    == 3      \* requests in one behaviour, the prediction last

\* The coordinates a request may carry.  A coordinate is given by its geocell,
\* calculateGeohash(lat, lng, 6), its position in metres along the meridian
\* the route follows, and its elevation in metres if it has one.
Coordinates ==
    { [geohash |-> "tdr1vz", metres |-> 0,   elevation |-> {100}],
      [geohash |-> "tdr1vy", metres |-> 400, elevation |-> {0}],
      [geohash |-> "tdr1vy", metres |-> 700, elevation |-> {}] }

\* [origin, ...waypoints, destination] (248-252).
Routes ==
    UNION {[1 .. n -> Coordinates] : n \in 2 .. MaxRoutePoints}

\* calculateDistance (410-421), in km: for two points of one meridian the
\* haversine formula gives the length of the arc between them.
calculateDistance(from, to) == Finite(Abs(to.metres - from.metres), 1000)

\* The variant ids of the catalog, an id that is no key of it, and the name
\* of a property every object inherits from Object.prototype.
RequestVariantIds == VariantIds \cup {"nexon_ev_max", "toString"}

\* Payload, tire pressure and battery health at the reference values, at
\* which calculateModelPrediction applies no surcharge, with regen and HVAC
\* off; and values off each of them, with regen level 3 and HVAC cooling.
VehicleConditions ==
    { [ payload |-> 150, tirePressure |-> 35, batteryHealth |-> 100,
        regenLevel |-> 0, hvacOn |-> FALSE, hvacMode |-> "off",
        hvacTemperature |-> 24 ],
      [ payload |-> 250, tirePressure |-> 30, batteryHealth |-> 80,
        regenLevel |-> 3, hvacOn |-> TRUE, hvacMode |-> "cooling",
        hvacTemperature |-> 24 ] }

VehicleStates ==
    { [ variantId       |-> v,
        payload         |-> c.payload,
        tirePressure    |-> c.tirePressure,
        batteryHealth   |-> c.batteryHealth,
        regenLevel      |-> c.regenLevel,
        hvacOn          |-> c.hvacOn,
        hvacMode        |-> c.hvacMode,
        hvacTemperature |-> c.hvacTemperature ] :
      v \in RequestVariantIds, c \in VehicleConditions }

\* VARIANTS (202-213).
VARIANTS ==
    [ nexon_ev_mr |-> [ batteryCapacity |-> Finite(302, 10),
                        baseConsumption |-> Finite(130, 1) ],
      nexon_ev_lr |-> [ batteryCapacity |-> Finite(405, 10),
                        baseConsumption |-> Finite(140, 1) ] ]

\* VARIANTS[variantId] || VARIANTS.nexon_ev_mr (259-261).  The lookup of a
\* name inherited from Object.prototype yields that property, a function,
\* which is truthy; its batteryCapacity and baseConsumption are undefined,
\* NaN in every arithmetic expression the handler puts them in.
VariantOf(variantId) ==
    IF variantId \in DOMAIN VARIANTS THEN VARIANTS[variantId]
    ELSE IF variantId \in ObjectPrototypeNames
         THEN [batteryCapacity |-> NaN, baseConsumption |-> NaN]
    ELSE VARIANTS.nexon_ev_mr

BaseConsumption(variantId) == VariantOf(variantId).baseConsumption

\* REGEN_EFFICIENCY[regenLevel] || 0.18 (216-221, 262-265): the entry of level
\* 0 is 0, which is falsy.
RegenEfficiency(regenLevel) ==
    LET entry == CASE regenLevel = 0 -> 0
                   [] regenLevel = 1 -> 10
                   [] regenLevel = 2 -> 18
                   [] regenLevel = 3 -> 25
                   [] OTHER          -> 0
    IN  Finite(IF entry # 0 THEN entry ELSE 18, 100)

FracTimes(a, n, d) == Times(a, Finite(n, d))

\* calculateModelPrediction (430-454), in Wh/km.
calculateModelPrediction(vehicleState) ==
    LET base     == BaseConsumption(vehicleState.variantId)
        payload  == IF vehicleState.payload > 150
                    THEN FracTimes(base,
                             10000 + 5 * (vehicleState.payload - 150), 10000)
                    ELSE base
        pressure == IF vehicleState.tirePressure < 35
                    THEN FracTimes(payload,
                             100 + (35 - vehicleState.tirePressure), 100)
                    ELSE payload
    IN  IF vehicleState.batteryHealth < 100
        THEN FracTimes(pressure, 100, vehicleState.batteryHealth)
        ELSE pressure

\* calculateHvacConsumption (459-472), in Wh/km.
calculateHvacConsumption(vehicleState) ==
    IF ~ vehicleState.hvacOn THEN Finite(0, 1)
    ELSE LET baseHvac == IF vehicleState.hvacMode = "heating" THEN 25 ELSE 20
             tempDiff == Abs(vehicleState.hvacTemperature - 28)
         IN  Finite(baseHvac * (100 + 2 * tempDiff), 100)

\* calculateElevationEnergy (477-497), in Wh: mass * g / 3600 is
\* 1600 * 9.81 / 3600 = 4.36.
calculateElevationEnergy(elevChange, regenEfficiency) ==
    LET potentialEnergy == Finite(436 * elevChange, 100)
    IN  IF elevChange > 0
        THEN Over(potentialEnergy, Finite(85, 100))
        ELSE Times(potentialEnergy, regenEfficiency)

\* The sum of the numbers seq[lo] .. seq[hi], the accumulation `total += x`
\* of a loop; the values are exact, so the order of the additions is free.
RECURSIVE SumRange(_, _, _)
SumRange(seq, lo, hi) ==
    IF lo > hi THEN Finite(0, 1)
    ELSE IF lo = hi THEN seq[lo]
    ELSE LET mid == (lo + hi) \div 2
         IN  Plus(SumRange(seq, lo, mid), SumRange(seq, mid + 1, hi))

Sum(seq, n) == SumRange(seq, 1, n)

\* One iteration of the loop over the route (279-339): the locals of the
\* segment from `from` to `to`, given the crowd segments of crowdDataMap.
SegmentLocals(from, to, crowdDataMap, vehicleState) ==
    LET found     == {s \in crowdDataMap : s.geohash = from.geohash}
        usedCrowd == found # {} /\ (CHOOSE s \in found : TRUE).confidence > 50
        crowdData == CHOOSE s \in found : TRUE
        variantId == vehicleState.variantId
        \* byVariant[variantId]: an entry of the map, or the function the
        \* object inherits under that name, whose avgWhPerKm is undefined.
        crowdWhPerKm ==
            IF /\ variantId \in StoredVariantIds
               /\ crowdData.byVariant[variantId] # NoVariantData
            THEN Over(Finite(crowdData.byVariant[variantId].avgWhPerKm.num,
                             crowdData.byVariant[variantId].avgWhPerKm.den),
                      Finite(1000, 1))
            ELSE IF variantId \in ObjectPrototypeNames THEN NaN
            ELSE Finite(crowdData.avgWhPerKm, 1000)
        elevEnergy ==
            IF from.elevation # {} /\ to.elevation # {}
            THEN calculateElevationEnergy(
                     (CHOOSE e \in to.elevation : TRUE)
                         - (CHOOSE e \in from.elevation : TRUE),
                     RegenEfficiency(vehicleState.regenLevel))
            ELSE Finite(0, 1)
    IN  [ geohash        |-> from.geohash,
          crowdData      |-> found,
          distance       |-> calculateDistance(from, to),
          segmentWhPerKm |-> IF usedCrowd THEN crowdWhPerKm
                             ELSE calculateModelPrediction(vehicleState),
          confidence     |-> IF usedCrowd THEN crowdData.confidence ELSE 30,
          usedCrowd      |-> usedCrowd,
          hvacOverhead   |-> calculateHvacConsumption(vehicleState),
          elevEnergy     |-> elevEnergy ]

\* The entry pushed on segmentPredictions (350-360).
SegmentPrediction(locals) ==
    [ geohash          |-> locals.geohash,
      distance         |-> Rounded2(locals.distance),
      estimatedWhPerKm |-> Rounded(locals.segmentWhPerKm),
      confidence       |-> locals.confidence,
      crowdDataUsed    |-> locals.usedCrowd ]

\* new Map(crowdSegments.map((s) => [s.geohash, s])) (256): of the queried
\* segments of one geohash the map keeps the one the query returned last.
IsCrowdDataMap(map, cells) ==
    /\ map \subseteq {s \in crowd : s.geohash \in cells}
    /\ \A s \in crowd :
          s.geohash \in cells =>
              Cardinality({t \in map : t.geohash = s.geohash}) = 1

\* The weights 0.6 / 0.4 in place of 0.7 / 0.3.
OverallConfidenceOtherWeights(crowdDataUsedCount, n) ==
    IF crowdDataUsedCount > 0
    THEN MathRound(60 * crowdDataUsedCount + 40 * n, n)
    ELSE 40

\* Math.round(overallConfidence * 100), where overallConfidence is
\* (crowdDataUsedCount / segmentPredictions.length) * 0.7 + 0.3, or 0.4 when
\* no segment used crowd data (371-375, 380).  Where the exact value is a
\* half, the double the program computes decides.
OverallConfidence(crowdDataUsedCount, n) ==
    IF crowdDataUsedCount > 0
    THEN RoundedAs(
             Finite(70 * crowdDataUsedCount + 30 * n, n),
             DoubleTimes(
                 DoublePlus(
                     DoubleTimes(DoubleOver(Whole(crowdDataUsedCount),
                                            Whole(n)),
                                 ToDouble(7, 10)),
                     ToDouble(3, 10)),
                 Whole(100))).num
    ELSE 40

\* The loop over the route and the totals after it (268-369), before any
\* rounding.  weatherImpact is never added to; trafficImpact adds
\* estimateTrafficImpact, which is 0 for a segment whose trafficPatterns is
\* empty, as it is in every segment updateCrowdSegment writes.
PredictionSums(route, crowdDataMap, vehicleState) ==
    LET n        == Len(route) - 1
        locals   == [i \in 1 .. n |->
                        SegmentLocals(route[i], route[i + 1], crowdDataMap,
                                      vehicleState)] \o <<>>
        segments == [i \in 1 .. n |-> SegmentPrediction(locals[i])] \o <<>>
        variant  == VariantOf(vehicleState.variantId)
        totalEnergyWh ==
            Sum([i \in 1 .. n |->
                    Times(Plus(locals[i].segmentWhPerKm,
                               locals[i].hvacOverhead),
                          locals[i].distance)], n)
        totalDistance ==
            Sum([i \in 1 .. n |-> segments[i].distance], n)
        avgWhPerKm == Over(totalEnergyWh, totalDistance)
    IN  [ route              |-> route,
          vehicleState       |-> vehicleState,
          locals             |-> locals,
          segments           |-> segments,
          estimatedEnergyWh  |-> totalEnergyWh,
          estimatedRangeKm   |->
              Over(Times(variant.batteryCapacity, Finite(1000, 1)),
                   avgWhPerKm),
          baseConsumption    |->
              Sum([i \in 1 .. n |->
                      Times(variant.baseConsumption, locals[i].distance)],
                  n),
          hvacConsumption    |->
              Sum([i \in 1 .. n |->
                      Times(locals[i].hvacOverhead, locals[i].distance)], n),
          elevationImpact    |->
              Sum([i \in 1 .. n |-> locals[i].elevEnergy], n),
          regenRecovery      |->
              Sum([i \in 1 .. n |->
                      IF Less(locals[i].elevEnergy, Finite(0, 1))
                      THEN Negated(locals[i].elevEnergy)
                      ELSE Finite(0, 1)], n),
          crowdDataUsedCount |->
              Cardinality({i \in 1 .. n : segments[i].crowdDataUsed}) ]

\* The totals that are sums of products with the haversine distance
\* (319-324, 364-369).  The handler adds them up in doubles, from distances
\* that are doubles near the lengths the model gives them; the model adds
\* up the lengths.  Where the model's total lies halfway between two whole
\* numbers, the double that Math.round is given lies on either side of it,
\* as the last bits of the distances have it.
DistanceSums ==
    {"estimatedEnergyWh", "estimatedRangeKm", "baseConsumption",
     "hvacConsumption"}

Halves(sums) == {name \in DistanceSums : IsHalf(sums[name])}

\* Math.round of the total `name`, whose double lies below the model's
\* half for the names of `below`.
RoundedSum(sums, name, below) ==
    IF name \in below /\ IsHalf(sums[name])
    THEN Minus(Rounded(sums[name]), Finite(1, 1))
    ELSE Rounded(sums[name])

\* The 200 answer (371-396) for the totals of the loop.  Kept with the
\* answer, as history: the request, and per segment the entry that
\* crowdDataMap.get(geohash) returned.
PredictionResponse(sums, below) ==
    LET n == Len(sums.segments)
    IN  [ status             |-> 200,
          queryFailed        |-> FALSE,
          estimatedEnergyWh  |->
              RoundedSum(sums, "estimatedEnergyWh", below),
          estimatedRangeKm   |->
              RoundedSum(sums, "estimatedRangeKm", below),
          confidence         |->
              OverallConfidence(sums.crowdDataUsedCount, n),
          breakdown          |->
              [ baseConsumption |->
                    RoundedSum(sums, "baseConsumption", below),
                elevationImpact |-> Rounded(sums.elevationImpact),
                weatherImpact   |-> Finite(0, 1),
                trafficImpact   |-> Finite(0, 1),
                hvacConsumption |->
                    RoundedSum(sums, "hvacConsumption", below),
                regenRecovery   |-> Rounded(sums.regenRecovery) ],
          crowdDataAvailable |-> sums.crowdDataUsedCount > 0,
          segments           |-> sums.segments,
          request            |-> {[route |-> sums.route,
                                   vehicleState |-> sums.vehicleState]},
          crowdData          |->
              [i \in 1 .. n |-> sums.locals[i].crowdData] ]

\* The catch block (397-403): any error, the store's included, answers 500.
PredictionError ==
    [NoPrediction EXCEPT !.status = 500, !.queryFailed = TRUE]

Predict ==
    /\ prediction = NoPrediction
    /\ started < MaxRequests
    /\ started' = started + 1
    /\ \E route \in Routes, vehicleState \in VehicleStates :
          \/ \E map \in SUBSET crowd :
                /\ IsCrowdDataMap(map, {route[i].geohash : i \in DOMAIN route})
                /\ \E sums \in {PredictionSums(route, map, vehicleState)} :
                      \E below \in SUBSET Halves(sums) :
                         prediction' = PredictionResponse(sums, below)
          \/ prediction' = PredictionError      \* the query throws
    /\ UNCHANGED <<crowd, trips, users, pc, call, ingested, sampleSum>>
    /\ UNCHANGED otherVars

(***************************************************************************)
(* updateCrowdSegment(segment, trip) (559-663) called on its own, by up to  *)
(* NumProcs callers at a time; a call awaits its read and then its write,   *)
(* and other calls run in between.  The crowd container starts empty or     *)
(* with one segment that SeedCount trips of one variant have crossed with   *)
(* the same consumption.  A behaviour is a number of calls and then one     *)
(* prediction request, which arrives when the calls have ended and is       *)
(* answered from the store they left.                                       *)
(***************************************************************************)
SeedCount   == 36
MaxIngests  == 3

SeedSegment ==
    [geohash |-> "tdr1vz", startIndex |-> 0, whPerKm |-> 100000]

RECURSIVE Seeded(_)
Seeded(n) ==
    IF n = 1 THEN NewSegment(SeedSegment, "nexon_ev_mr")
    ELSE UpdatedSegment(Seeded(n - 1), SeedSegment, "nexon_ev_mr")

InitSeq ==
    /\ \E seeded \in BOOLEAN :
          /\ crowd = IF seeded THEN {Seeded(SeedCount)} ELSE {}
          /\ ingested = [id \in SegmentIds |->
                IF seeded /\ id = segmentId(SeedSegment)
                THEN SeedCount ELSE 0]
          /\ sampleSum = [id \in SegmentIds |->
                IF seeded /\ id = segmentId(SeedSegment)
                THEN {SeedCount * SeedSegment.whPerKm} ELSE {0}]
    /\ trips = {}
    /\ users = {}
    /\ pc = [p \in Procs |-> "idle"]
    /\ call = [p \in Procs |-> IdleCall]
    /\ started = 0
    /\ prediction = NoPrediction
    /\ ingestResult = {}
    /\ tripInput = {}
    /\ tripPrediction = {}
    /\ NoCalculation
    /\ FreshClient

\* return { created, updated } (662), or the error thrown, with the id of
\* the segment and, as history, whether the segment was in the store when
\* the call read it.
Returned(id, existed, created, updated, error) ==
    { [ id      |-> id,
        existed |-> existed,
        created |-> created,
        updated |-> updated,
        error   |-> error ] }

\* What a step of a call leaves alone.
IngestStep ==
    /\ UNCHANGED <<trips, users, prediction, tripVars, calculationVars,
                   clientVars>>

\* A call for a segment and a trip.vehicleState.variantId of the given
\* sets, up to the answer to its read (571-573): the segment is found, or
\* the read throws with code 404 (the segment is missing, or the store has
\* rejected the read of a stored segment with that code) and the catch
\* block goes on to the create, or it resolves without a resource (of a
\* missing segment or of a stored one) and the call returns
\* {created: false, updated: false}, or it throws another error, which the
\* catch block throws again (658-660).
IngestOf(p, segments, variantIds) ==
    /\ pc[p] = "idle"
    /\ prediction = NoPrediction
    /\ started < MaxIngests
    /\ started' = started + 1
    /\ \E segment \in segments, variantId \in variantIds :
          LET id     == segmentId(segment)
              found  == Item(crowd, id)
              locals == [IdleCall EXCEPT !.handler   = "updateCrowdSegment",
                                         !.variantId = variantId,
                                         !.segment   = segment,
                                         !.existing  = found]
          IN  \/ /\ found # {}
                 /\ pc' = [pc EXCEPT ![p] = "upsert"]
                 /\ call' = [call EXCEPT ![p] = locals]
                 /\ UNCHANGED ingestResult
              \/ /\ pc' = [pc EXCEPT ![p] = "create"]   \* throws, code 404
                 /\ call' = [call EXCEPT ![p] = locals]
                 /\ UNCHANGED ingestResult
              \/ /\ ingestResult' =      \* the read resolves, no resource
                        Returned(id, found # {}, FALSE, FALSE, "")
                 /\ UNCHANGED <<pc, call>>
              \/ /\ ingestResult' =      \* the read throws another error
                        Returned(id, found # {}, FALSE, FALSE, "read")
                 /\ UNCHANGED <<pc, call>>
    /\ UNCHANGED <<crowd, ingested, sampleSum>>
    /\ IngestStep

Ingest(p) == IngestOf(p, TripSegments, VariantIds)

\* The sum of the samples once `whPerKm` is written by a call that has read
\* `existing`.
SummedUp(id, existing, whPerKm) ==
    [sampleSum EXCEPT ![id] =
        IF Item(crowd, id) = existing THEN {sum + whPerKm : sum \in @}
        ELSE {}]

\* items.upsert(existing) (616) of the segment computed from what the call
\* has read (576-614); the call returns {created: false, updated: true}.
IngestUpsert(p) ==
    /\ pc[p] = "upsert"
    /\ LET c        == call[p]
           id       == segmentId(c.segment)
           existing == CHOOSE e \in c.existing : TRUE
       IN  /\ crowd' = Upsert(crowd,
                          UpdatedSegment(existing, c.segment, c.variantId))
           /\ ingested' = Counted(id)
           /\ sampleSum' = SummedUp(id, c.existing, c.segment.whPerKm)
           /\ ingestResult' = Returned(id, TRUE, FALSE, TRUE, "")
    /\ pc' = [pc EXCEPT ![p] = "idle"]
    /\ call' = [call EXCEPT ![p] = IdleCall]
    /\ UNCHANGED started
    /\ IngestStep

\* items.create(newSegment) (655) in the catch block; the call returns
\* {created: true, updated: false}.  The create of an id that exists throws
\* a 409 conflict, which nothing in updateCrowdSegment catches.
IngestCreate(p) ==
    /\ pc[p] = "create"
    /\ LET c  == call[p]
           id == segmentId(c.segment)
       IN  IF Item(crowd, id) = {}
           THEN /\ crowd' = crowd \cup {NewSegment(c.segment, c.variantId)}
                /\ ingested' = Counted(id)
                /\ sampleSum' = SummedUp(id, {}, c.segment.whPerKm)
                /\ ingestResult' =
                       Returned(id, c.existing # {}, TRUE, FALSE, "")
           ELSE /\ ingestResult' =
                       Returned(id, c.existing # {}, FALSE, FALSE, "conflict")
                /\ UNCHANGED <<crowd, ingested, sampleSum>>
    /\ pc' = [pc EXCEPT ![p] = "idle"]
    /\ call' = [call EXCEPT ![p] = IdleCall]
    /\ UNCHANGED started
    /\ IngestStep

\* The awaited write fails.  The error of the upsert is caught by the catch
\* block (619-660): with error.code 404 the call goes on to create the
\* segment, any other error is thrown again.  The error of the create
\* leaves the catch block as it is.
IngestFailure(p) ==
    /\ pc[p] \in {"upsert", "create"}
    /\ \/ /\ pc' = [pc EXCEPT ![p] = "idle"]
          /\ call' = [call EXCEPT ![p] = IdleCall]
          /\ ingestResult' =
                 Returned(segmentId(call[p].segment), call[p].existing # {},
                          FALSE, FALSE, pc[p])
       \/ /\ pc[p] = "upsert"           \* the upsert rejects with code 404
          /\ pc' = [pc EXCEPT ![p] = "create"]
          /\ UNCHANGED <<call, ingestResult>>
    /\ UNCHANGED <<crowd, started, ingested, sampleSum>>
    /\ IngestStep

\* No call is in flight.
AllIdle == \A p \in Procs : pc[p] = "idle"

NextSeq ==
    \/ \E p \in Procs :
          \/ Ingest(p)
          \/ IngestUpsert(p)
          \/ IngestCreate(p)
          \/ IngestFailure(p)
    \/ AllIdle /\ Predict

SpecSeq == InitSeq /\ [][NextSeq]_vars

(***************************************************************************)
(* Calls of updateCrowdSegment alone, for trips as a client may send them:  *)
(* whPerKm is any number, here also one with three decimals, and variantId  *)
(* is any string, here also a name objects inherit.                         *)
(***************************************************************************)
IngestSamples == Samples \cup {100004}

IngestSegments ==
    [geohash : Geohashes, startIndex : StartIndexes, whPerKm : IngestSamples]

IngestTrip(p) == IngestOf(p, IngestSegments, StoredVariantIds)

NextIngest ==
    \E p \in Procs :
       \/ IngestTrip(p)
       \/ IngestUpsert(p)
       \/ IngestCreate(p)
       \/ IngestFailure(p)

SpecIngest == InitSeq /\ [][NextIngest]_vars

(***************************************************************************)
(* Prediction requests with many waypoints.  The route has MaxLongRoute     *)
(* segments or one fewer; its first points lie in the cell of the seeded    *)
(* segment, the others in a cell the store has nothing for.                 *)
(***************************************************************************)
MaxLongRoute == 141

CoveredPoint   == [geohash |-> "tdr1vz", metres |-> 0, elevation |-> {100}]

UncoveredPoint == [geohash |-> "tdr1vy", metres |-> 400, elevation |-> {0}]

LongRoute(n, covered) ==
    [i \in 1 .. n + 1 |-> IF i <= covered THEN CoveredPoint ELSE UncoveredPoint]

PredictLongRoute ==
    /\ prediction = NoPrediction
    /\ started < MaxRequests
    /\ started' = started + 1
    /\ \E n \in MaxLongRoute - 1 .. MaxLongRoute :
          \E covered \in 0 .. n, vehicleState \in VehicleStates :
             \E sums \in {PredictionSums(LongRoute(n, covered), crowd,
                                         vehicleState)} :
                \E below \in SUBSET Halves(sums) :
                   prediction' = PredictionResponse(sums, below)
    /\ UNCHANGED <<crowd, trips, users, pc, call, ingested, sampleSum>>
    /\ UNCHANGED otherVars

NextRoute == Predict \/ PredictLongRoute

SpecRoute == InitSeq /\ [][NextRoute]_vars


(***************************************************************************)
(* predictTripEnergy (energyPrediction.ts 125-258), a function of the route *)
(* totals, the vehicle state and the weather and traffic conditions, each   *)
(* of which may be null (held as the empty set).  Energies are in Wh.       *)
(***************************************************************************)
\* A Medium Range variant with half the battery, for comparison.
NEXON_EV_VARIANTS_HalfBattery ==
    [ MR |-> [id |-> "MR", batteryCapacity |-> 15, baseConsumption |-> 130],
      LR |-> [id |-> "LR", batteryCapacity |-> 45, baseConsumption |-> 140] ]

\* NEXON_EV_VARIANTS (src/unnamed/part_006, 43-78): what the function reads.
NEXON_EV_VARIANTS ==
    [ MR |-> [id |-> "MR", batteryCapacity |-> 30, baseConsumption |-> 130],
      LR |-> [id |-> "LR", batteryCapacity |-> 45, baseConsumption |-> 140] ]

\* REGEN_LEVELS[level].recoveryEfficiency (part_006, 81-106).
RecoveryEfficiency(level) ==
    CASE level = 0 -> Finite(0, 100)
      [] level = 1 -> Finite(10, 100)
      [] level = 2 -> Finite(18, 100)
      [] level = 3 -> Finite(25, 100)

\* Route totals: 100 km on the flat, 11 km on the flat in 22 minutes (an
\* average of 30 km/h, which the program holds as 30.000000000000004),
\* 10 km down 100 m, 10 km up 100 m, and a route of no length.
TripRoutes ==
    { [ totalDistance |-> 100, estimatedDuration |-> 120,
        totalElevationGain |-> 0, totalElevationLoss |-> 0 ],
      [ totalDistance |-> 11, estimatedDuration |-> 22,
        totalElevationGain |-> 0, totalElevationLoss |-> 0 ],
      [ totalDistance |-> 10, estimatedDuration |-> 15,
        totalElevationGain |-> 0, totalElevationLoss |-> 100 ],
      [ totalDistance |-> 10, estimatedDuration |-> 15,
        totalElevationGain |-> 100, totalElevationLoss |-> 0 ],
      [ totalDistance |-> 0, estimatedDuration |-> 0,
        totalElevationGain |-> 0, totalElevationLoss |-> 0 ] }

TripVehicles ==
    [ variant       : {NEXON_EV_VARIANTS.MR, NEXON_EV_VARIANTS.LR},
      currentSoC    : {0, 80, 100},
      batteryHealth : {98, 100},
      regenLevel    : 0 .. 3,
      hvacOn        : BOOLEAN,
      hvacMode      : {"cooling", "heating"},
      payload       : {75, 240} ]

TripWeathers ==
    { [temperature |-> 28, windSpeed |-> 0],
      [temperature |-> -5, windSpeed |-> 30] }

TripTraffics ==
    { [density |-> "moderate", averageSpeed |-> 50] }

\* The arguments of a call; weather and traffic are null or one value.
TripInputs ==
    [ route   : TripRoutes,
      vehicle : TripVehicles,
      weather : {{}} \cup {{w} : w \in TripWeathers},
      traffic : {{}} \cup {{t} : t \in TripTraffics} ]

\* getTemperatureEfficiency (60-66).
getTemperatureEfficiency(tempC) ==
    IF tempC < 0 THEN Finite(70, 100)
    ELSE IF tempC < 15 THEN Finite(85, 100)
    ELSE IF tempC <= 30 THEN Finite(100, 100)
    ELSE IF tempC <= 40 THEN Finite(92, 100)
    ELSE Finite(85, 100)

\* The number n / d of the program's text or input: the fraction, or the
\* double the program holds when `held`.
Number(held, n, d) == IF held THEN ToDouble(n, d) ELSE Finite(n, d)

\* The whole number n to compare x with.
Like(x, n) == IF IsDouble(x) THEN Whole(n) ELSE Finite(n, 1)

\* calculateElevationEnergy (91-106) for the climb or the descent of
\* `metres`: (vehicleMassKg * GRAVITY * metres) / 3600, GRAVITY being 9.81.
PotentialEnergy(vehicleMassKg, metres, held) ==
    Divided(Multiplied(Multiplied(Number(held, vehicleMassKg, 1), Number(held, 981, 100)), Number(held, metres, 1)),
         Number(held, 3600, 1))

\* getSpeedConsumptionFactor (112-120): every comparison with NaN is false.
getSpeedConsumptionFactor(avgSpeedKmh) ==
    IF NotAbove(avgSpeedKmh, Like(avgSpeedKmh, 30)) THEN Finite(115, 100)
    ELSE IF NotAbove(avgSpeedKmh, Like(avgSpeedKmh, 50)) THEN Finite(100, 100)
    ELSE IF NotAbove(avgSpeedKmh, Like(avgSpeedKmh, 70)) THEN Finite(100, 100)
    ELSE IF NotAbove(avgSpeedKmh, Like(avgSpeedKmh, 90)) THEN Finite(112, 100)
    ELSE IF NotAbove(avgSpeedKmh, Like(avgSpeedKmh, 110)) THEN Finite(128, 100)
    ELSE IF NotAbove(avgSpeedKmh, Like(avgSpeedKmh, 130)) THEN Finite(145, 100)
    ELSE Finite(160, 100)

\* avgSpeedKmh (137-138): traffic?.averageSpeed || distanceKm /
\* durationHours.
AvgSpeedKmh(route, traffic, held) ==
    IF traffic # {} /\ (CHOOSE t \in traffic : TRUE).averageSpeed # 0
    THEN Number(held, (CHOOSE t \in traffic : TRUE).averageSpeed, 1)
    ELSE Divided(Number(held, route.totalDistance, 1),
                 Divided(Number(held, route.estimatedDuration, 1),
                         Number(held, 60, 1)))

\* speedFactor (159): where the exact speed is one of the limits that
\* getSpeedConsumptionFactor compares it with, the comparison goes by the
\* double the program holds, which may lie on either side of the limit.
SpeedFactor(avgSpeedKmh, heldSpeedKmh) ==
    getSpeedConsumptionFactor(
        IF /\ IsFinite(avgSpeedKmh)
           /\ avgSpeedKmh.den = 1
           /\ avgSpeedKmh.num \in {30, 50, 70, 90, 110, 130}
        THEN heldSpeedKmh ELSE avgSpeedKmh)

\* TRAFFIC_CONSUMPTION_FACTOR (49-55).
TRAFFIC_CONSUMPTION_FACTOR ==
    [ free_flow |-> Finite(100, 100), light     |-> Finite(105, 100),
      moderate  |-> Finite(112, 100), heavy     |-> Finite(125, 100),
      congested |-> Finite(140, 100) ]

\* HVAC_POWER (42-46), in kW.
HVAC_POWER ==
    [cooling |-> Finite(25, 10), heating |-> Finite(4, 1), off |-> Finite(0, 1)]

\* getAvailableEnergy (part_006, 125-130), in kWh.
getAvailableEnergy(state) ==
    Finite(state.variant.batteryCapacity * state.currentSoC
               * state.batteryHealth, 10000)

\* The loop of generateRangePoints (309-317) before its rounding: the
\* locals of the body at the points i = 0 .. numPoints, numPoints being
\* Math.min(20, Math.ceil(totalDistance)) with totalDistance whole.
RangePointValues(totalDistance, startSoC, consumptionPerKm, batteryCapacityKwh, held) ==
    LET numPoints == Min2(20, totalDistance)
    IN  [ k \in 1 .. numPoints + 1 |->
            LET i              == k - 1
                distance       == Multiplied(Divided(Number(held, i, 1), Number(held, numPoints, 1)),
                                        Number(held, totalDistance, 1))
                energyUsedKwh  == Divided(Multiplied(distance, consumptionPerKm),
                                       Number(held, 1000, 1))
                socUsed        == Multiplied(Divided(energyUsedKwh,
                                             batteryCapacityKwh),
                                        Number(held, 100, 1))
                currentSoC     == AtLeast0(Subtracted(Number(held, startSoC, 1), socUsed))
                remainingEnergy == Multiplied(Divided(currentSoC, Number(held, 100, 1)),
                                         batteryCapacityKwh)
                remainingRange == Divided(remainingEnergy,
                                       Divided(consumptionPerKm, Number(held, 1000, 1)))
            IN  [ distance        |-> distance,
                  energyUsedKwh   |-> energyUsedKwh,
                  socUsed         |-> socUsed,
                  currentSoC      |-> currentSoC,
                  remainingEnergy |-> remainingEnergy,
                  remainingRange  |-> remainingRange ] ]

\* The points pushed (319-323): `points` are the values of the loop,
\* `held` the doubles that the program has for them.
RangePoints(points, held) ==
    [ k \in DOMAIN points |->
        [ distance       |-> points[k].distance,
          predictedSoC   |-> RoundedAs(points[k].currentSoC,
                                       held[k].currentSoC),
          predictedRange |-> RoundedAs(points[k].remainingRange,
                                       held[k].remainingRange) ] ]

\* generateRangePoints (301-327).
generateRangePoints(totalDistance, startSoC, consumptionPerKm, batteryCapacityKwh) ==
    RangePoints(RangePointValues(totalDistance, startSoC, consumptionPerKm,
                                 batteryCapacityKwh, FALSE),
                RangePointValues(totalDistance, startSoC,
                                 AsDouble(consumptionPerKm),
                                 AsDouble(batteryCapacityKwh), TRUE))

\* The costs of predictTripEnergy (131-179), in Wh: its constants of a
\* numeric value, each by its name and in the order of the code.
TripCosts(route, vehicle, weather, traffic, held) ==
    LET Num(n, d)           == Number(held, n, d)
        Lit(x)              == Num(x.num, x.den)
        distanceKm          == Num(route.totalDistance, 1)
        baseConsumptionWhKm == Num(vehicle.variant.baseConsumption, 1)
        totalMassKg         == 1560 + vehicle.payload
        durationHours       == Divided(Num(route.estimatedDuration, 1),
                                       Num(60, 1))
        avgSpeedKmh         == AvgSpeedKmh(route, traffic, held)
        baseConsumptionWh == Multiplied(baseConsumptionWhKm, distanceKm)
        uphillEnergy      == PotentialEnergy(totalMassKg,
                                             route.totalElevationGain, held)
        downhillRecovery  ==
            Multiplied(PotentialEnergy(totalMassKg, route.totalElevationLoss,
                                       held),
                       Lit(RecoveryEfficiency(vehicle.regenLevel)))
        ambientTemp       == IF weather # {}
                             THEN (CHOOSE w \in weather : TRUE).temperature
                             ELSE 25
        trafficFactor     ==
            IF traffic # {}
            THEN Lit(TRAFFIC_CONSUMPTION_FACTOR[
                         (CHOOSE t \in traffic : TRUE).density])
            ELSE Num(1, 1)
        hvacPowerKw       == IF vehicle.hvacOn
                             THEN Lit(HVAC_POWER[vehicle.hvacMode])
                             ELSE Num(0, 1)
        \* calculateHeadwind (263-269): weather.windSpeed * 0.5
        headwind          == IF weather # {}
                             THEN Multiplied(
                                      Num((CHOOSE w \in weather : TRUE)
                                              .windSpeed, 1), Num(5, 10))
                             ELSE Num(0, 1)
    IN  [ durationHours     |-> durationHours,
          avgSpeedKmh       |-> avgSpeedKmh,
          baseConsumptionWh |-> baseConsumptionWh,
          elevationCostWh   |-> Multiplied(uphillEnergy, Num(1000, 1)),
          regenRecoveryWh   |-> Multiplied(downhillRecovery, Num(1000, 1)),
          tempCostWh        |->
              Multiplied(baseConsumptionWh,
                         Subtracted(Num(1, 1),
                                    Lit(getTemperatureEfficiency(
                                            ambientTemp)))),
          speedCostWh       |->
              Multiplied(baseConsumptionWh,
                         Subtracted(
                             Lit(SpeedFactor(
                                     AvgSpeedKmh(route, traffic, FALSE),
                                     AvgSpeedKmh(route, traffic, TRUE))),
                             Num(1, 1))),
          trafficCostWh     |->
              Multiplied(baseConsumptionWh,
                         Subtracted(trafficFactor, Num(1, 1))),
          hvacCostWh        |->
              Multiplied(Multiplied(hvacPowerKw, durationHours),
                         Num(1000, 1)),
          auxiliaryCostWh   |->
              Multiplied(Multiplied(Num(15, 100), durationHours),
                         Num(1000, 1)),
          windAdjustmentWh  |->
              IF Below(Num(10, 1), headwind)
              THEN Multiplied(Multiplied(baseConsumptionWh, Num(8, 100)),
                              Divided(headwind, Num(30, 1)))
              ELSE Num(0, 1) ]

\* totalConsumptionWh (181-190) of the costs.
TripTotal(costs) ==
    Subtracted(Added(Added(Added(Added(Added(Added(Added(
        costs.baseConsumptionWh, costs.elevationCostWh), costs.tempCostWh),
        costs.speedCostWh), costs.trafficCostWh), costs.hvacCostWh),
        costs.auxiliaryCostWh), costs.windAdjustmentWh),
        costs.regenRecoveryWh)

\* What predictTripEnergy derives from the total (192-213).
TripBalance(totalConsumptionWh, route, vehicle, held) ==
    LET Num(n, d)           == Number(held, n, d)
        totalConsumptionKwh == Divided(totalConsumptionWh, Num(1000, 1))
        consumptionPerKm    == Divided(totalConsumptionWh,
                                       Num(route.totalDistance, 1))
        availableEnergyKwh  ==
            Num(getAvailableEnergy(vehicle).num,
                getAvailableEnergy(vehicle).den)
        usableBatteryKwh    ==
            Multiplied(Num(vehicle.variant.batteryCapacity, 1),
                       Divided(Num(vehicle.batteryHealth, 1), Num(100, 1)))
    IN  [ totalConsumptionWh  |-> totalConsumptionWh,
          totalConsumptionKwh |-> totalConsumptionKwh,
          consumptionPerKm    |-> consumptionPerKm,
          availableEnergyKwh  |-> availableEnergyKwh,
          usableBatteryKwh    |-> usableBatteryKwh,
          endSoCPercent       |->
              AtLeast0(Subtracted(
                  Num(vehicle.currentSoC, 1),
                  Multiplied(Divided(totalConsumptionKwh, usableBatteryKwh),
                             Num(100, 1)))),
          remainingEnergyKwh  |->
              Subtracted(availableEnergyKwh, totalConsumptionKwh),
          remainingRange      |->
              AtLeast0(Divided(
                  Subtracted(availableEnergyKwh, totalConsumptionKwh),
                  Divided(consumptionPerKm, Num(1000, 1)))) ]

\* The answer of predictTripEnergy (215-258) from the values of its body:
\* `costs` and `body` are the exact values, `held` the doubles of the
\* body.  Where Math.round is given a value halfway between two whole
\* numbers, and where endSoCPercent is 5 exactly, the answer goes by the
\* doubles.
TripPrediction(route, vehicle, costs, body, held) ==
    [ startSoC          |-> vehicle.currentSoC,
      predictedEndSoC   |-> RoundedAs(body.endSoCPercent,
                                      held.endSoCPercent),
      predictedRange    |-> RoundedAs(body.remainingRange,
                                      held.remainingRange),
      energyConsumption |-> body.totalConsumptionKwh,
      consumptionPerKm  |-> body.consumptionPerKm,
      canComplete       |->
          IF body.endSoCPercent = Finite(5, 1)
          THEN NotAbove(Whole(5), held.endSoCPercent)
          ELSE AtMost(Finite(5, 1), body.endSoCPercent),
      marginOfSafety    |-> body.remainingRange,
      breakdown         |->
          [ baseConsumption  |-> costs.baseConsumptionWh,
            elevationCost    |-> costs.elevationCostWh,
            temperatureCost  |-> costs.tempCostWh,
            speedCost        |-> costs.speedCostWh,
            trafficCost      |-> costs.trafficCostWh,
            hvacCost         |-> costs.hvacCostWh,
            auxiliaryCost    |-> costs.auxiliaryCostWh,
            regenRecovery    |-> costs.regenRecoveryWh,
            totalConsumption |-> body.totalConsumptionWh ],
      rangeAtPoints     |->
          RangePoints(
              RangePointValues(route.totalDistance, vehicle.currentSoC,
                               body.consumptionPerKm,
                               body.usableBatteryKwh, FALSE),
              RangePointValues(route.totalDistance, vehicle.currentSoC,
                               held.consumptionPerKm,
                               held.usableBatteryKwh, TRUE)) ]

\* The values of the body of predictTripEnergy after the costs (181-213).
TripEnergy(costs, route, vehicle, held) ==
    TripBalance(TripTotal(costs), route, vehicle, held)

\* The answer (181-258) from the costs, exact and held.
TripAnswer(route, vehicle, costs, heldCosts) ==
    TripPrediction(route, vehicle, costs,
                   TripEnergy(costs, route, vehicle, FALSE),
                   TripEnergy(heldCosts, route, vehicle, TRUE))

\* predictTripEnergy (125-258).
predictTripEnergy(route, vehicle, weather, traffic) ==
    TripAnswer(route, vehicle,
               TripCosts(route, vehicle, weather, traffic, FALSE),
               TripCosts(route, vehicle, weather, traffic, TRUE))

\* A call of predictTripEnergy with arguments drawn from TripInputs.
InitTrip ==
    /\ crowd = {}
    /\ trips = {}
    /\ users = {}
    /\ pc = [p \in Procs |-> "idle"]
    /\ call = [p \in Procs |-> IdleCall]
    /\ started = 0
    /\ ingested = [id \in SegmentIds |-> 0]
    /\ sampleSum = [id \in SegmentIds |-> {0}]
    /\ prediction = NoPrediction
    /\ ingestResult = {}
    /\ tripInput \in {{input} : input \in TripInputs}
    /\ tripPrediction = {}
    /\ NoCalculation
    /\ FreshClient

PredictTripEnergy ==
    /\ tripPrediction = {}
    /\ \E input \in tripInput :
          tripPrediction' = {predictTripEnergy(input.route, input.vehicle,
                                               input.weather, input.traffic)}
    /\ UNCHANGED <<crowd, trips, users, pc, call, started, ingested,
                   sampleSum, prediction, ingestResult, tripInput,
                   calculationVars, clientVars>>

NextEnergy == PredictTripEnergy

SpecTrip == InitTrip /\ [][NextEnergy]_vars


(***************************************************************************)
(* calculateConfidence as a function of its arguments: a call with a        *)
(* sample count and a standard deviation (whole numbers of Wh/km).          *)
(***************************************************************************)
MaxSampleCount  == 150
MaxStdDeviation == 110

ConfidenceInputs ==
    [sampleCount : 0 .. MaxSampleCount, stdDeviation : 0 .. MaxStdDeviation]

InitConfidence ==
    /\ IdleServer
    /\ started = 0
    /\ FreshClient
    /\ geohashInput = {}
    /\ geohashResult = {}
    /\ confidenceInput \in {{input} : input \in ConfidenceInputs}
    /\ confidenceResult = {}

CalculateConfidence ==
    /\ confidenceResult = {}
    /\ \E input \in confidenceInput :
          confidenceResult' =
              {calculateConfidence(input.sampleCount, input.stdDeviation)}
    /\ UNCHANGED <<serverVars, started, confidenceInput, geohashInput,
                   geohashResult, clientVars>>

NextConfidence == CalculateConfidence

SpecConfidence == InitConfidence /\ [][NextConfidence]_vars

(***************************************************************************)
(* calculateGeohash (src/api/src/models/index.ts 249-293).  Latitudes and   *)
(* longitudes are exact fractions of a degree; the midpoints the loop       *)
(* forms are multiples of 45 / 2^k, which floating point holds exactly.  A  *)
(* hash is held as the sequence of its characters.                          *)
(***************************************************************************)
MaxPrecision == 3

base32 ==
    << "0", "1", "2", "3", "4", "5", "6", "7", "8", "9", "b", "c", "d", "e",
       "f", "g", "h", "j", "k", "m", "n", "p", "q", "r", "s", "t", "u", "v",
       "w", "x", "y", "z" >>

\* The locals of calculateGeohash before the loop (254-262).
GeohashStart(isLng) ==
    [ minLat |-> Finite(-90, 1),  maxLat |-> Finite(90, 1),
      minLng |-> Finite(-180, 1), maxLng |-> Finite(180, 1),
      hash   |-> <<>>, bit |-> 0, ch |-> 0, isLng |-> isLng ]

\* One iteration of the loop (265-291); ch << 1 is 2 * ch.
GeohashStep(s, lat, lng) ==
    LET mid   == IF s.isLng
                 THEN Over(Plus(s.minLng, s.maxLng), Finite(2, 1))
                 ELSE Over(Plus(s.minLat, s.maxLat), Finite(2, 1))
        upper == IF s.isLng THEN AtMost(mid, lng) ELSE AtMost(mid, lat)
        ch    == IF upper THEN 2 * s.ch + 1 ELSE 2 * s.ch
        full  == s.bit + 1 = 5
    IN  [ minLat |-> IF ~ s.isLng /\ upper THEN mid ELSE s.minLat,
          maxLat |-> IF ~ s.isLng /\ ~ upper THEN mid ELSE s.maxLat,
          minLng |-> IF s.isLng /\ upper THEN mid ELSE s.minLng,
          maxLng |-> IF s.isLng /\ ~ upper THEN mid ELSE s.maxLng,
          hash   |-> IF full THEN Append(s.hash, base32[ch + 1]) ELSE s.hash,
          bit    |-> IF full THEN 0 ELSE s.bit + 1,
          ch     |-> IF full THEN 0 ELSE ch,
          isLng  |-> ~ s.isLng ]

\* while (hash.length < precision) { ... } return hash
RECURSIVE GeohashLoop(_, _, _, _)
GeohashLoop(s, lat, lng, precision) ==
    IF Len(s.hash) < precision
    THEN GeohashLoop(GeohashStep(s, lat, lng), lat, lng, precision)
    ELSE s.hash

\* The loop run one character further, and the loop starting with a
\* latitude bit, for comparison.
calculateGeohashOneMore(lat, lng, precision) ==
    GeohashLoop(GeohashStart(TRUE), lat, lng, precision + 1)

calculateGeohashLatFirst(lat, lng, precision) ==
    GeohashLoop(GeohashStart(FALSE), lat, lng, precision)

calculateGeohash(lat, lng, precision) ==
    GeohashLoop(GeohashStart(TRUE), lat, lng, precision)

\* Valid coordinates: the ends of the ranges, the origin, and points on and
\* next to the cell edges of precisions 2 and 3 (latitude 5.625 and
\* 1.40625, longitude 11.25 and 1.40625).
Latitudes ==
    { Finite(-90, 1), Finite(0, 1), Finite(14, 10), Finite(45, 32),
      Finite(56, 10), Finite(45, 8), Finite(90, 1) }

Longitudes ==
    { Finite(-180, 1), Finite(0, 1), Finite(14, 10), Finite(45, 32),
      Finite(112, 10), Finite(45, 4), Finite(180, 1) }

GeoCoordinates == [lat : Latitudes, lng : Longitudes]

\* Two coordinates and a precision.
GeohashInputs ==
    [a : GeoCoordinates, b : GeoCoordinates, precision : 1 .. MaxPrecision]

InitGeohash ==
    /\ IdleServer
    /\ started = 0
    /\ FreshClient
    /\ confidenceInput = {}
    /\ confidenceResult = {}
    /\ geohashInput \in {{input} : input \in GeohashInputs}
    /\ geohashResult = {}

\* The hashes of both coordinates at the precision, and the hash of the
\* first at the next precision.
CalculateGeohash ==
    /\ geohashResult = {}
    /\ \E input \in geohashInput :
          geohashResult' =
              { [ a    |-> calculateGeohash(input.a.lat, input.a.lng,
                                            input.precision),
                  b    |-> calculateGeohash(input.b.lat, input.b.lng,
                                            input.precision),
                  next |-> calculateGeohash(input.a.lat, input.a.lng,
                                            input.precision + 1) ] }
    /\ UNCHANGED <<serverVars, started, geohashInput, confidenceInput,
                   confidenceResult, clientVars>>

NextGeohash == CalculateGeohash

SpecGeohash == InitGeohash /\ [][NextGeohash]_vars

(***************************************************************************)
(* The vehicle store of the client (useVehicleStore, src/unnamed/part_005   *)
(* 976-1020).  Every action is one call of `set`; the numbers passed are    *)
(* drawn from StoreNumbers, below, inside and above the physical ranges.    *)
(***************************************************************************)
MaxStoreActions == 3

StoreNumbers == {-10, 50, 150}

\* An optional argument: absent, or one of the values.
Optional(values) == {{}} \cup {{v} : v \in values}

\* The argument if it is given, the default of the parameter otherwise.
OrDefault(argument, default) ==
    IF argument = {} THEN default ELSE CHOOSE v \in argument : TRUE

\* Math.max(0, Math.min(100, x))
Clamped(x) == Max2(0, Min2(100, x))

StoreStep ==
    /\ started < MaxStoreActions
    /\ started' = started + 1
    /\ UNCHANGED <<serverVars, calculationVars, pendingTrips, syncRequests,
                   acknowledged>>

setVariant ==
    /\ \E variant \in {"MR", "LR"} :
          vehicleStore' = [vehicleStore EXCEPT !.variant = variant]
    /\ StoreStep

setSoC ==
    /\ \E soc \in StoreNumbers :
          vehicleStore' = [vehicleStore EXCEPT !.currentSoC = Clamped(soc)]
    /\ StoreStep

setBatteryHealth ==
    /\ \E health \in StoreNumbers :
          vehicleStore' =
              [vehicleStore EXCEPT !.batteryHealth = Clamped(health)]
    /\ StoreStep

setBatteryTemperature ==
    /\ \E temp \in StoreNumbers :
          vehicleStore' = [vehicleStore EXCEPT !.batteryTemperature = temp]
    /\ StoreStep

setRegenLevel ==
    /\ \E level \in 0 .. 3 :
          vehicleStore' = [vehicleStore EXCEPT !.regenLevel = level]
    /\ StoreStep

\* setHvac(on, mode = "off", temp = 24)
setHvac ==
    /\ \E on \in BOOLEAN,
          modeGiven \in Optional({"off", "cooling", "heating"}),
          tempGiven \in Optional(StoreNumbers) :
          LET mode == OrDefault(modeGiven, "off")
              temp == OrDefault(tempGiven, 24)
          IN  vehicleStore' =
                  [vehicleStore EXCEPT
                     !.hvacOn = on,
                     !.hvacMode = IF on
                                  THEN (IF mode = "off" THEN "cooling"
                                        ELSE mode)
                                  ELSE "off",
                     !.hvacTemperature = temp]
    /\ StoreStep

setTirePressure ==
    /\ \E pressure \in StoreNumbers :
          vehicleStore' = [vehicleStore EXCEPT !.tirePressure = pressure]
    /\ StoreStep

setPayload ==
    /\ \E kg \in StoreNumbers :
          vehicleStore' = [vehicleStore EXCEPT !.payload = Max2(0, kg)]
    /\ StoreStep

setConnected ==
    /\ \E connected \in BOOLEAN :
          vehicleStore' = [vehicleStore EXCEPT !.isConnected = connected]
    /\ StoreStep

\* The fields an OBD reading may carry (Partial<VehicleState>), each with
\* the values it may have.
OBDFields ==
    [ currentSoC         |-> StoreNumbers,
      batteryHealth      |-> StoreNumbers,
      batteryTemperature |-> StoreNumbers,
      payload            |-> StoreNumbers,
      hvacOn             |-> BOOLEAN,
      isConnected        |-> BOOLEAN ]

\* updateFromOBD(data): set((state) => ({ ...state, ...data })), for a
\* reading of one field or of two.
updateFromOBD ==
    /\ \E f \in DOMAIN OBDFields, g \in DOMAIN OBDFields :
          \E x \in OBDFields[f], y \in OBDFields[g] :
              vehicleStore' = [[vehicleStore EXCEPT ![f] = x] EXCEPT ![g] = y]
    /\ StoreStep

reset ==
    /\ vehicleStore' = DEFAULT_VEHICLE_STATE
    /\ StoreStep

InitStore ==
    /\ IdleServer
    /\ started = 0
    /\ NoCalculation
    /\ FreshClient

NextStore ==
    \/ setVariant
    \/ setSoC
    \/ setBatteryHealth
    \/ setBatteryTemperature
    \/ setRegenLevel
    \/ setHvac
    \/ setTirePressure
    \/ setPayload
    \/ setConnected
    \/ updateFromOBD
    \/ reset

SpecStore == InitStore /\ [][NextStore]_vars

(***************************************************************************)
(* offlineSync (src/src/services/api/client.ts 251-292): the queue of       *)
(* pending trips in localStorage and syncPending, which reads the queue,    *)
(* awaits the answer to the sync request and clears the queue when the      *)
(* answer carries data.  Other calls run while a request is awaited.  A     *)
(* trip is named by the number of the call that stored it.                  *)
(***************************************************************************)
MaxClientCalls == 5

Range(seq) == {seq[i] : i \in DOMAIN seq}

ClientStep ==
    /\ UNCHANGED <<serverVars, calculationVars, vehicleStore>>

\* storePendingTrip(trip)
storePendingTrip ==
    /\ started < MaxClientCalls
    /\ started' = started + 1
    /\ pendingTrips' = Append(pendingTrips, started + 1)
    /\ UNCHANGED <<syncRequests, acknowledged>>
    /\ ClientStep

\* syncPending(userId) up to its await: with an empty queue it returns null
\* and sends nothing, otherwise the request carries the queue as it is.
syncPending ==
    /\ started < MaxClientCalls
    /\ started' = started + 1
    /\ syncRequests' =
          IF pendingTrips = <<>> THEN syncRequests
          ELSE syncRequests \cup {[call |-> started + 1,
                                   trips |-> pendingTrips]}
    /\ UNCHANGED <<pendingTrips, acknowledged>>
    /\ ClientStep

\* clearPendingTrips() (272-274) called on its own: the item is removed.
clearPendingTrips ==
    /\ started < MaxClientCalls
    /\ started' = started + 1
    /\ pendingTrips' = <<>>
    /\ UNCHANGED <<syncRequests, acknowledged>>
    /\ ClientStep

\* The request is answered with data (apiRequest 29-39, response.ok):
\* syncPending calls clearPendingTrips and returns the data.
SyncAnswered ==
    /\ \E request \in syncRequests :
          /\ syncRequests' = syncRequests \ {request}
          /\ acknowledged' = acknowledged \cup Range(request.trips)
    /\ pendingTrips' = <<>>
    /\ UNCHANGED started
    /\ ClientStep

\* The request fails (an error status or no answer at all, apiRequest
\* 29-44): result.data is undefined and syncPending returns null.
SyncFailed ==
    /\ \E request \in syncRequests :
          syncRequests' = syncRequests \ {request}
    /\ UNCHANGED <<started, pendingTrips, acknowledged>>
    /\ ClientStep

InitClient ==
    /\ IdleServer
    /\ started = 0
    /\ NoCalculation
    /\ FreshClient

NextClient ==
    \/ storePendingTrip
    \/ clearPendingTrips
    \/ syncPending
    \/ SyncAnswered
    \/ SyncFailed

SpecClient == InitClient /\ [][NextClient]_vars

(***************************************************************************)
(* Claims about predictions over short and long routes (specification       *)
(* SpecRoute).                                                              *)
(***************************************************************************)
CrowdSegmentCount ==
    Cardinality({i \in DOMAIN prediction.segments :
                    prediction.segments[i].crowdDataUsed})

TotalSegments == Len(prediction.segments)

\* The parts of C15 that do not depend on when the rounded value reaches 1:
\* the confidence is the hundredth nearest to (count / total) * 0.7 + 0.3
\* when a segment used crowd data and 0.4 otherwise, it lies in [0.3, 1.0],
\* and crowdDataAvailable says whether a segment used crowd data.
C15_Blend ==
    /\ CrowdSegmentCount > 0 =>
          2 * Abs(prediction.confidence * TotalSegments
                  - (70 * CrowdSegmentCount + 30 * TotalSegments))
              <= TotalSegments
    /\ CrowdSegmentCount = 0 => prediction.confidence = 40
    /\ prediction.confidence >= 30
    /\ prediction.confidence <= 100
    /\ prediction.crowdDataAvailable = (CrowdSegmentCount > 0)

\* C15, as stated: the overall confidence of an answer is
\* (crowdSegmentCount / totalSegments) * 0.7 + 0.3 rounded to 2 decimals, or
\* 0.4 without crowd data; it lies in [0.3, 1.0]; it is 1.0 exactly when
\* every segment used crowd data; crowdDataAvailable is true exactly when a
\* segment used crowd data.
C15_OverallConfidence ==
    prediction.status = 200 =>
        /\ C15_Blend
        /\ (prediction.confidence = 100)
               = (CrowdSegmentCount = TotalSegments)

\* C15, amended: as stated, but the rounded confidence is 1.0 exactly when
\* fewer than one segment in 140 did not use crowd data (none, on any route
\* of at most 140 segments).  With exactly one segment in 140 not using
\* crowd data the value is 0.995 and the double the program holds is below
\* it: the confidence is 0.99.
C15_OverallConfidenceRounded ==
    prediction.status = 200 =>
        /\ C15_Blend
        /\ (prediction.confidence = 100)
               = (140 * (TotalSegments - CrowdSegmentCount) < TotalSegments)
        /\ 140 * (TotalSegments - CrowdSegmentCount) = TotalSegments =>
               prediction.confidence = 99

\* An answer for a route of 141 segments of which 140 used crowd data, and
\* whose confidence is 1.0.
C15_Witness ==
    /\ prediction.status = 200
    /\ TotalSegments = 141
    /\ CrowdSegmentCount = 140
    /\ prediction.confidence = 100

(***************************************************************************)
(* Claims about sequential ingests and predictions (specification SpecSeq). *)
(***************************************************************************)

\* C4: after N samples ingested one at a time into a segment, its avgWhPerKm
\* equals sum(samples) / N within 1e-6:
\*     | avgWhPerKm / 1000 - sum / (1000 N) | <= 1 / 1000000.
C4_RunningMeanIsTrueMean ==
    \A s \in crowd : \A sum \in sampleSum[s.id] :
        LET n == ingested[s.id]
            d == s.avgWhPerKm * n - sum
        IN  1000 * Abs(d) <= n

\* C8: when the crowd query of a prediction fails, the prediction still
\* answers 200, every segment estimated by the model alone.
C8_QueryFailureFallsBackToModel ==
    prediction.queryFailed =>
        /\ prediction.status = 200
        /\ ~ prediction.crowdDataAvailable
        /\ Len(prediction.segments) >= 1
        /\ \A i \in DOMAIN prediction.segments :
              ~ prediction.segments[i].crowdDataUsed

\* C11: an ingest that returns reports exactly one of created / updated,
\* created when the store had no segment of that id before the call and
\* updated when it had one, and the segment is in the store afterwards.
C11_IngestReportsItsBranch ==
    \A r \in ingestResult :
      r.error = "" =>
        /\ r.created # r.updated
        /\ r.created = ~ r.existed
        /\ \E s \in crowd : s.id = r.id /\ s.sampleCount >= 1

\* C12: every stored segment's confidence is calculateConfidence of its own
\* sampleCount and stdDeviation; a segment created from its first sample has
\* sampleCount 1 and so the confidence calculateConfidence(1, 0).
C12_ConfidenceIsScorerValue ==
    \A s \in crowd :
        s.confidence = calculateConfidence(s.sampleCount, s.stdDeviation)

\* C14: a segment of a prediction is marked crowd-sourced exactly when the
\* lookup of its starting cell found an entry with confidence above 0.5; a
\* crowd-sourced segment reports the entry's average of the requested variant
\* when the variant map has that variant and the entry's overall average
\* otherwise; any other segment reports the model-only estimate with
\* confidence 0.3.
C14_CrowdUsedIffConfident ==
    \A r \in prediction.request :
      \A i \in DOMAIN prediction.segments :
        LET seg       == prediction.segments[i]
            found     == prediction.crowdData[i]
            entry     == CHOOSE e \in found : TRUE
            variantId == r.vehicleState.variantId
            hasVariant ==
                /\ variantId \in VariantIds
                /\ entry.byVariant[variantId].sampleCount > 0
        IN  /\ seg.crowdDataUsed = (found # {} /\ entry.confidence > 50)
            /\ seg.crowdDataUsed =>
                  /\ seg.confidence = entry.confidence
                  /\ seg.estimatedWhPerKm =
                        IF hasVariant
                        THEN Rounded(Over(Finite(
                                 entry.byVariant[variantId].avgWhPerKm.num,
                                 entry.byVariant[variantId].avgWhPerKm.den),
                                 Finite(1000, 1)))
                        ELSE Rounded(Finite(entry.avgWhPerKm, 1000))
            /\ ~ seg.crowdDataUsed =>
                  /\ seg.confidence = 30
                  /\ seg.estimatedWhPerKm =
                        Rounded(calculateModelPrediction(r.vehicleState))

\* C16: the answer to a request whose variantId is not in the catalog is
\* computed with the specification of nexon_ev_mr: the base consumption of
\* its breakdown is 130 Wh/km over the route, and its model-only segments
\* report the model estimate of a nexon_ev_mr in the same condition.
C16_UnknownVariantUsesDefault ==
    \A r \in prediction.request :
        r.vehicleState.variantId \notin DOMAIN VARIANTS =>
            LET n == Len(r.route) - 1
                asDefault ==
                    [r.vehicleState EXCEPT !.variantId = "nexon_ev_mr"]
            IN  /\ prediction.status = 200
                /\ prediction.breakdown.baseConsumption =
                      Rounded(Sum([i \in 1 .. n |->
                          Times(Finite(130, 1),
                                calculateDistance(r.route[i],
                                                  r.route[i + 1]))], n))
                /\ \A i \in 1 .. n :
                      ~ prediction.segments[i].crowdDataUsed =>
                          prediction.segments[i].estimatedWhPerKm =
                              Rounded(calculateModelPrediction(asDefault))

\* C20: a prediction requested with regen level 0 applies regen efficiency 0:
\* the regenRecovery of its breakdown is 0, on a descending route too.
C20_RegenOffRecoversNothing ==
    \A r \in prediction.request :
        r.vehicleState.regenLevel = 0 =>
            prediction.breakdown.regenRecovery = Finite(0, 1)

(***************************************************************************)
(* Claims about the stored aggregate (specification SpecIngest).            *)
(***************************************************************************)
RECURSIVE VariantSamples(_, _)
VariantSamples(byVariant, ids) ==
    IF ids = {} THEN 0
    ELSE LET v == CHOOSE id \in ids : TRUE
         IN  byVariant[v].sampleCount + VariantSamples(byVariant, ids \ {v})

\* C28: in every stored crowd segment the sample counts of the variants add
\* up to the sampleCount of the segment.
C28_VariantCountsAddUp ==
    \A s \in crowd :
        VariantSamples(s.byVariant, DOMAIN s.byVariant) = s.sampleCount

\* C29: in every stored crowd segment minWhPerKm <= avgWhPerKm <= maxWhPerKm,
\* and the average of every variant in the map lies between minWhPerKm and
\* maxWhPerKm as well.
C29_AverageWithinBounds ==
    \A s \in crowd :
        /\ s.minWhPerKm <= s.avgWhPerKm
        /\ s.avgWhPerKm <= s.maxWhPerKm
        /\ \A v \in DOMAIN s.byVariant :
              s.byVariant[v].sampleCount > 0 =>
                  LET a == s.byVariant[v].avgWhPerKm
                  IN  /\ s.minWhPerKm * a.den <= a.num
                      /\ a.num <= s.maxWhPerKm * a.den

(***************************************************************************)
(* Claims about calculateConfidence (specification SpecConfidence).         *)
(***************************************************************************)

\* C24: calculateConfidence(sampleCount, stdDeviation) lies in [0, 1], does
\* not decrease when sampleCount grows and does not increase when
\* stdDeviation grows (stated for the next smaller argument, which gives
\* every pair of arguments by transitivity).
C24_ConfidenceBoundedAndMonotone ==
    \A input \in confidenceInput : \A result \in confidenceResult :
        LET n  == input.sampleCount
            sd == input.stdDeviation
        IN  /\ result \in 0 .. 100
            /\ n > 0 => calculateConfidence(n - 1, sd) <= result
            /\ sd > 0 => calculateConfidence(n, sd - 1) >= result

\* A score strictly between its neighbours: 50 samples, deviation 20 give
\* 0.51, 49 samples give 0.50 and deviation 19 gives 0.51 or more.
C24_Witness ==
    \E input \in confidenceInput : \E result \in confidenceResult :
        /\ input.sampleCount = 50
        /\ input.stdDeviation = 20
        /\ result = 51
        /\ calculateConfidence(49, 20) < result

(***************************************************************************)
(* Claims about calculateGeohash (specification SpecGeohash).               *)
(***************************************************************************)
Characters == {base32[i] : i \in DOMAIN base32}

\* C22: calculateGeohash(lat, lng, p) returns p characters of the alphabet,
\* and they are the first p characters of the hash of precision p + 1.
C22_GeohashShape ==
    \A input \in geohashInput : \A result \in geohashResult :
        /\ Len(result.a) = input.precision
        /\ \A i \in DOMAIN result.a : result.a[i] \in Characters
        /\ Len(result.next) = input.precision + 1
        /\ SubSeq(result.next, 1, input.precision) = result.a

\* The hash of latitude 5.625, longitude 11.25 at precision 3 and at 4.
C22_Witness ==
    \E input \in geohashInput : \E result \in geohashResult :
        /\ input.precision = 3
        /\ input.a = [lat |-> Finite(45, 8), lng |-> Finite(45, 4)]
        /\ result.a = <<"s", "3", "0">>
        /\ result.next = <<"s", "3", "0", "0">>

\* The index of the interval holding x when [-half, half] is cut into 2^bits
\* equal intervals, each with its lower end; the upper end `half` of the
\* range belongs to the last interval.
IntervalIndex(x, half, bits) ==
    Min2(((x.num + half * x.den) * Pow2(bits)) \div (2 * half * x.den),
         Pow2(bits) - 1)

\* The cell of a coordinate after 5p halvings that alternate longitude and
\* latitude starting with longitude.
Cell(c, precision) ==
    << IntervalIndex(c.lng, 180, (5 * precision + 1) \div 2),
       IntervalIndex(c.lat, 90, (5 * precision) \div 2) >>

\* C23: two coordinates receive the same hash of precision p exactly when
\* they lie in the same cell of the subdivision.
C23_SameHashIffSameCell ==
    \A input \in geohashInput : \A result \in geohashResult :
        (result.a = result.b) =
            (Cell(input.a, input.precision) = Cell(input.b, input.precision))

\* Two different coordinates of one cell hashed alike at precision 3.
C23_Witness ==
    \E input \in geohashInput : \E result \in geohashResult :
        /\ input.precision = 3
        /\ input.a = [lat |-> Finite(0, 1), lng |-> Finite(0, 1)]
        /\ input.b = [lat |-> Finite(14, 10), lng |-> Finite(14, 10)]
        /\ result.a = <<"s", "0", "0">>
        /\ result.b = result.a

(***************************************************************************)
(* Claims about the vehicle store (specification SpecStore).                *)
(***************************************************************************)

\* C21: after any sequence of store actions the vehicle state is within its
\* physical ranges: currentSoC and batteryHealth in [0, 100], payload not
\* negative, and hvacMode "off" exactly when hvacOn is false.
C21_VehicleStateInRange ==
    /\ vehicleStore.currentSoC \in 0 .. 100
    /\ vehicleStore.batteryHealth \in 0 .. 100
    /\ vehicleStore.payload >= 0
    /\ (vehicleStore.hvacMode = "off") = (~ vehicleStore.hvacOn)

(***************************************************************************)
(* Claims about the offline queue (specification SpecClient).               *)
(***************************************************************************)

\* C30: in a step of storePendingTrip or syncPending (any step but a call
\* of clearPendingTrips on its own) a trip leaves the pending queue only if
\* it was part of a sync request that the server has answered
\* successfully, and a sync request that fails leaves the queue as it is.
C30_OnlySyncedTripsLeaveQueue ==
    [][\/ clearPendingTrips
       \/ /\ Range(pendingTrips) \ Range(pendingTrips') \subseteq acknowledged'
          /\ SyncFailed => pendingTrips' = pendingTrips]_vars

(***************************************************************************)
(* Claims about predictTripEnergy (specification SpecTrip).                 *)
(***************************************************************************)

\* C17: the predicted end state of charge predictTripEnergy returns lies in
\* [0, 100], for a vehicle whose currentSoC is in [0, 100].
C17_EndSoCWithinRange ==
    \A input \in tripInput : \A result \in tripPrediction :
        input.vehicle.currentSoC \in 0 .. 100 =>
            /\ AtMost(Finite(0, 1), result.predictedEndSoC)
            /\ AtMost(result.predictedEndSoC, Finite(100, 1))

\* C18: the total consumption predictTripEnergy reports, in its breakdown and
\* as energyConsumption, is never negative.
C18_TotalConsumptionNotNegative ==
    \A result \in tripPrediction :
        /\ AtMost(Finite(0, 1), result.breakdown.totalConsumption)
        /\ AtMost(Finite(0, 1), result.energyConsumption)

\* C19: a prediction over a route of totalDistance 0 reports zero consumption
\* and finite per-km and range figures, none of them NaN or infinite.
C19_ZeroDistanceIsFinite ==
    \A input \in tripInput : \A result \in tripPrediction :
        input.route.totalDistance = 0 =>
            /\ result.energyConsumption = Finite(0, 1)
            /\ IsFinite(result.consumptionPerKm)
            /\ IsFinite(result.predictedRange)
            /\ IsFinite(result.marginOfSafety)
            /\ \A k \in DOMAIN result.rangeAtPoints :
                  /\ IsFinite(result.rangeAtPoints[k].distance)
                  /\ IsFinite(result.rangeAtPoints[k].predictedRange)

\* The scenario of C25: the MR variant at 80% SoC and 98% health, 100 km on
\* the flat in two hours, 28 C, moderate traffic at 50 km/h, HVAC off,
\* regen level 2.
FlatTripScenario(input) ==
    /\ input.vehicle.variant.id = "MR"
    /\ input.vehicle.currentSoC = 80
    /\ input.vehicle.batteryHealth = 98
    /\ input.vehicle.regenLevel = 2
    /\ ~ input.vehicle.hvacOn
    /\ input.route.totalDistance = 100
    /\ input.route.totalElevationGain = 0
    /\ input.route.totalElevationLoss = 0
    /\ \E w \in input.weather : w.temperature = 28
    /\ \E t \in input.traffic : t.density = "moderate"

\* C25: in that scenario predictTripEnergy returns regenRecovery 0, a
\* predicted end SoC below 80 and canComplete true.
C25_FlatTripCompletes ==
    \A input \in tripInput : \A result \in tripPrediction :
        FlatTripScenario(input) =>
            /\ result.breakdown.regenRecovery = Finite(0, 1)
            /\ Less(result.predictedEndSoC, Finite(80, 1))
            /\ result.canComplete

\* The scenario has been predicted: 14.86 kWh of 29.4 kWh, from 80% to 29%.
C25_Witness ==
    \E input \in tripInput : \E result \in tripPrediction :
        /\ FlatTripScenario(input)
        /\ result.energyConsumption = Finite(1486, 100)
        /\ result.predictedEndSoC = Finite(29, 1)
        /\ result.canComplete

\* The sum of the cost fields of a breakdown minus its regenRecovery.
BreakdownSum(b) ==
    Minus(Plus(Plus(Plus(Plus(Plus(Plus(b.baseConsumption, b.elevationCost),
          b.temperatureCost), b.speedCost), b.trafficCost), b.hvacCost),
          b.auxiliaryCost), b.regenRecovery)

\* C26: breakdown.totalConsumption equals the sum of the breakdown's cost
\* fields minus regenRecovery, in any weather.
C26_BreakdownAccountsForTotal ==
    \A result \in tripPrediction :
        result.breakdown.totalConsumption = BreakdownSum(result.breakdown)

\* C27: the elevation cost reported is mass x 9.81 x totalElevationGain /
\* 3600 and the regen recovery mass x 9.81 x totalElevationLoss / 3600 x
\* regenEfficiency, in Wh, the mass being 1560 kg plus the payload.
C27_ElevationEnergyInWh ==
    \A input \in tripInput : \A result \in tripPrediction :
        LET mass == 1560 + input.vehicle.payload
        IN  /\ result.breakdown.elevationCost =
                  Finite(mass * 981 * input.route.totalElevationGain, 360000)
            /\ result.breakdown.regenRecovery =
                  Times(Finite(mass * 981 * input.route.totalElevationLoss,
                               360000),
                        RecoveryEfficiency(input.vehicle.regenLevel))

(***************************************************************************)
(* Claims about the sync pipeline and the crowd aggregator under            *)
(* interleaved request handlers (specification Spec).                       *)
(***************************************************************************)

\* C1: no ingest of an existing segment is lost: a stored segment's
\* sampleCount equals the number of ingests of that segment that have
\* completed (the one that created it and every one that updated it).
C1_NoLostUpdate ==
    \A s \in crowd : s.sampleCount = ingested[s.id]

\* C2: syncTrips is idempotent per trip: a handler that is ingesting a segment
\* of a trip which was already stored as synced when it was submitted leaves
\* the crowd container as it is.
C2_ResubmissionNotIngested ==
    [][\A p \in Procs :
          (/\ pc[p] \in {"upsert", "create"}
           /\ call[p].wasSynced
           /\ pc'[p] # pc[p]) => crowd' = crowd]_vars

\* C3: the syncedCount a call returns is at most the number of its trips
\* whose id was not stored before.
C3_SyncedCountOnlyNewTrips ==
    \A p \in Procs :
        pc[p] = "done" => call[p].syncedCount <= call[p].newTrips

\* C5: no store write replaces a segment's sampleCount by a smaller one
\* (and no segment disappears).
C5_SampleCountOnlyIncreases ==
    [][\A s \in crowd :
          \E t \in crowd' : t.id = s.id /\ t.sampleCount >= s.sampleCount]_vars

CrowdErrors == {"read", "upsert", "create", "conflict"}

\* C6: when a crowd read or write fails while a trip (not stored before) is
\* being processed, the trip is not left stored as synced.
C6_FailedTripStaysUnsynced ==
    \A p \in Procs :
        (/\ pc[p] = "failed"
         /\ call[p].error \in CrowdErrors
         /\ ~ call[p].wasSynced)
        => [id |-> call[p].tripId, synced |-> TRUE] \notin trips

\* C7: a failure while processing one trip does not end the call: no call
\* fails as a whole while trips of its batch are still unprocessed.
C7_BatchIsolatesFailures ==
    \A p \in Procs : ~ (pc[p] = "failed" /\ call[p].tripsLeft > 1)

\* C9: the loser of a race to create a segment is retried and then applies as
\* an update: no ingest ends on a create conflict (the code makes one attempt,
\* so a conflict that ends the ingest is the first one).
C9_CreateRaceRetried ==
    \A p \in Procs : call[p].error # "conflict"

\* The stored profile says the user does not share anonymous data.
OptedOut == users = {UserProfile(Preferences({FALSE}))}

\* C13: a call of syncTrips that has found the user not sharing anonymous
\* data at each of its trips so far makes no call of updateCrowdSegment, so
\* it writes nothing to the crowd container, and counts no created and no
\* updated segment; each trip is stored once saveTrip has run, and a call
\* that returns has counted every trip of its request in syncedCount.  The
\* test of the preference itself ends the call only for a profile whose
\* preferences are null, never for one whose shareAnonymousData is false.
C13_OptOutLeavesCrowdAlone ==
    \A p \in Procs :
        (call[p].handler = "syncTrips" /\ call[p].sharedTrips = 0) =>
            /\ pc[p] \notin {"read", "upsert", "create"}
            /\ call[p].newSegmentsCreated = 0
            /\ call[p].crowdUpdatesApplied = 0
            /\ pc[p] = "getOrCreateUser" =>
                  /\ [id |-> call[p].tripId, synced |-> TRUE] \in trips
                  /\ call[p].syncedCount >= 1
            /\ pc[p] = "done" =>
                  /\ call[p].syncedCount = call[p].requested
                  /\ call[p].requested > 0 => trips # {}
            /\ call[p].error = "preferences" =>
                  call[p].user = {UserProfile(NullPreferences)}

\* A call of an opted-out user has returned after two trips, both stored,
\* each with segments to share.
C13_Witness ==
    /\ OptedOut
    /\ Cardinality(trips) = 2
    /\ \E p \in Procs :
          /\ pc[p] = "done"
          /\ call[p].handler = "syncTrips"
          /\ call[p].sharedTrips = 0
          /\ call[p].syncedCount = 2

\* C10: the crowd container holds at most one segment per geocell.
C10_OneSegmentPerCell ==
    \A s \in crowd, t \in crowd : s.geohash = t.geohash => s = t

====
